---- MODULE Spec2Model ----
(***************************************************************************)
(* Model of the stream multiplexer of omen (src/src/multiplexer.rs): the   *)
(* provider drivers (stream_provider_with_events), the Race coordinator    *)
(* (race_providers) and the speculative coordinator (speculate_with_delay).*)
(*                                                                         *)
(* Chunks are sequences of one-character strings, so that trim(), len()    *)
(* and contains() are computed as the code computes them.  Money is in     *)
(* units of 0.01 USD (the Done cost of line 436 is 1, the default budget   *)
(* of line 90 is 10).  Time is abstracted to the expiry of the two timers. *)
(***************************************************************************)
EXTENDS Integers, Sequences, FiniteSets, TLC

VARIABLES
    strategy,          \* MultiplexStrategy handed to multiplex_stream
    providers,         \* StreamMultiplexer.providers (Vec, in order)
    budget_cap,        \* StreamMultiplexer.budget_cap
    drvPc,             \* position of each driver task
    produced,          \* chunks each provider stream has yielded so far
    chan,              \* the mpsc channel of StreamEvents (tx -> rx)
    cancelled,         \* cancellation_token.is_cancelled()
    coordPc,           \* coordinator task: "running" or "finished"
    coordExit,         \* which break ended the coordinator loop
    winner,            \* race_providers: winner
    total_cost,        \* race_providers: total_cost
    token_count,       \* race_providers: token_count
    current_provider,  \* speculate_with_delay: current_provider
    can_upgrade,       \* speculate_with_delay: can_upgrade
    output,            \* items sent on stream_tx, in order
    outputOpen,        \* the caller still holds the output stream
    deadlineElapsed,   \* max_latency has elapsed since the run started
    cloudSpawned,      \* the delayed cloud spawner has run
    muxResult,         \* what multiplex_stream returned: Ok(stream) or Err
    user_billing,      \* BillingManager.user_billing (HashMap by tenant)
    usage_history,     \* BillingManager.usage_history (HashMap by tenant)
    buckets,           \* AdaptiveRateLimiter.buckets (HashMap by tenant)
    utc,               \* chrono::Utc::now(): day and month numbers
    runs,              \* the calls in progress, one record per task
    cache,             \* OmenRouter.cache: None, or what Redis holds
    hasher,            \* DefaultHasher: from what is hashed to the hex digest
    advanced_router,   \* OmenRouter.advanced_router: metrics, cost_budgets
    decision           \* how the last streaming request was routed

vars == <<strategy, providers, budget_cap, drvPc, produced, chan, cancelled,
          coordPc, coordExit, winner, total_cost, token_count,
          current_provider, can_upgrade, output, outputOpen,
          deadlineElapsed, cloudSpawned, muxResult,
          user_billing, usage_history, buckets, utc, runs, cache,
          hasher, advanced_router, decision>>

----------------------------------------------------------------------------
(* Bounds of the model *)

\* chunks a provider stream yields at most
MaxChunks == 2

\* check_rate_limit is not called for a bucket with this many requests:
\* the bucket of the first tenant, the bucket of any other tenant
MaxRequests == 26

MaxOtherRequests == 2

\* seconds by which the clock advances in one step
TickSeconds == 30

\* record_usage is not called for a tenant with this many history entries
MaxRecords == 2

\* no request is sent for a cache key with this many hits
MaxHits == 2

\* the UTC date changes at most this often
MaxDays == 1

\* responses folded into the metrics of one provider at most
MaxSamples == 2

----------------------------------------------------------------------------
(* Program constants *)

\* mpsc::channel::<StreamEvent>(100)
ChannelCap == 100

\* config.k.unwrap_or(2)
K == 2

\* config.min_useful_tokens.unwrap_or(5)
min_useful_tokens == 5

\* cost_usd: 0.01 of every Done event, in units of 0.01 USD
DoneCost == 1

\* config.budget_usd.unwrap_or(0.10), in units of 0.01 USD
DefaultBudget == 10

NoProvider == "none"

LocalId == "ollama"

----------------------------------------------------------------------------
(* Chunks *)

Space    == <<" ">>
FortyTwo == <<"4", "2">>
Hello    == <<"h", "e", "l", "l", "o">>
\* the character U+0060 (a string literal cannot hold it)
Backtick == "backtick"

\* the code fence, three backticks
Fence    == <<Backtick, Backtick, Backtick>>

Chunks == {Space, Fence}

Whitespace == {" ", "\n", "\t", "\r"}

RECURSIVE TrimStart(_)
TrimStart(s) ==
    IF s # <<>> /\ Head(s) \in Whitespace THEN TrimStart(Tail(s)) ELSE s

RECURSIVE TrimEnd(_)
TrimEnd(s) ==
    IF s # <<>> /\ s[Len(s)] \in Whitespace
    THEN TrimEnd(SubSeq(s, 1, Len(s) - 1))
    ELSE s

\* str::trim
Trim(s) == TrimEnd(TrimStart(s))

\* str::contains
Contains(s, sub) ==
    \E i \in 1..(Len(s) - Len(sub) + 1) : SubSeq(s, i, i + Len(sub) - 1) = sub

\* is_useful_token without the length threshold: any content counts
is_useful_token_any_content(chunk, min_tokens) == Trim(chunk) # <<>>

is_useful_token(chunk, min_tokens) ==
    LET content == Trim(chunk) IN
    IF content = <<>>
    THEN FALSE
    ELSE \/ Len(content) >= min_tokens
         \/ Contains(content, Fence)
         \/ Contains(content, <<"\n">>)

should_upgrade(chunk) ==
    \/ Contains(chunk, Fence)
    \/ Contains(chunk, <<"f","u","n","c","t","i","o","n","_","c","a","l","l">>)
    \/ Contains(chunk, <<"t","o","o","l","_","c","a","l","l">>)

----------------------------------------------------------------------------
(* Strategy dispatch *)

ProviderLists == { <<"ollama", "openai">> }

ProviderIds == {"ollama", "openai"}

Strategies == {"race", "speculate_k", "parallel_merge"}

\* budget_usd of the directive, in units of 0.01 USD
Budgets == {-1, 0}

Min(a, b) == IF a < b THEN a ELSE b

\* iter().take(n)
Take(s, n) == SubSeq(s, 1, Min(n, Len(s)))

Range(s) == { s[i] : i \in 1..Len(s) }

\* iter().filter(|p| p.id() != "ollama")
RECURSIVE NonLocal(_)
NonLocal(s) ==
    IF s = <<>> THEN <<>>
    ELSE IF Head(s) # LocalId THEN <<Head(s)>> \o NonLocal(Tail(s))
         ELSE NonLocal(Tail(s))

\* run_speculate_k: local_providers
local_providers(ps) == IF LocalId \in Range(ps) THEN {LocalId} ELSE {}

\* run_speculate_k: cloud_providers
cloud_providers(ps, k) == Range(Take(NonLocal(ps), k - 1))

\* run_race: candidates
race_candidates(ps, k) == Range(Take(ps, k))

\* multiplex_stream: which coordinator serves the run
Mode(st, ps) ==
    IF st = "single" THEN "single"
    ELSE IF st = "speculate_k" /\ local_providers(ps) # {}
    THEN "speculate"
    ELSE "race"

\* the drivers spawned before multiplex_stream returns
SpawnedAtStart(st, ps) ==
    IF Mode(st, ps) = "single" THEN {}
    ELSE IF Mode(st, ps) = "speculate" THEN local_providers(ps)
    ELSE race_candidates(ps, K)

\* run_single: self.providers.first()
first(ps) == IF ps = <<>> THEN NoProvider ELSE Head(ps)

\* what multiplex_stream can return for this strategy and provider list;
\* run_single hands on the Result of the provider's stream_chat_completion
MultiplexResults(st, ps) ==
    IF Mode(st, ps) = "single"
    THEN IF first(ps) = NoProvider THEN {"ProviderUnavailable"}
         ELSE {"Ok", "ProviderError"}
    ELSE {"Ok"}

\* every driver the run can spawn
Drivers == IF Mode(strategy, providers) = "single" THEN {}
           ELSE IF Mode(strategy, providers) = "speculate"
           THEN local_providers(providers) \cup cloud_providers(providers, K)
           ELSE race_candidates(providers, K)

----------------------------------------------------------------------------
(* Events and output items *)

TokenEvent(p, c, i) ==
    [type |-> "Token", provider_id |-> p, chunk |-> c, idx |-> i,
     error |-> "", cost_usd |-> 0]

ErrorEvent(p, e) ==
    [type |-> "Error", provider_id |-> p, chunk |-> <<>>, idx |-> 0,
     error |-> e, cost_usd |-> 0]

DoneEvent(p, n) ==
    [type |-> "Done", provider_id |-> p, chunk |-> <<>>, idx |-> n,
     error |-> "", cost_usd |-> DoneCost]

OkItem(ev) ==
    [kind |-> "Ok", provider_id |-> ev.provider_id, chunk |-> ev.chunk,
     idx |-> ev.idx, error |-> ""]

ErrItem(ev) ==
    [kind |-> "Err", provider_id |-> ev.provider_id, chunk |-> <<>>,
     idx |-> 0, error |-> ev.error]

\* StreamSend putting the item in front of the items already sent
StreamSendInFront(out, open, item) == IF open THEN <<item>> \o out ELSE out

\* stream_tx.send(item).await, its Err ignored when the receiver is gone
StreamSend(out, open, item) == IF open THEN Append(out, item) ELSE out

\* tx.send(event).await, its Err ignored when the coordinator is gone
TxSend(ch, running, ev) == IF running THEN Append(ch, ev) ELSE ch

\* tx.send blocks while the channel is full and its receiver is alive
TxReady == coordPc = "running" => Len(chan) < ChannelCap

----------------------------------------------------------------------------
(* Admission state of the router: the billing ledger (billing.rs, auth.rs)  *)
(* and the rate limiter (rate_limiter.rs).  A HashMap is a function whose   *)
(* domain is the set of its keys.  Money is in units of 0.001 USD and a     *)
(* cost multiplier in tenths.  An Instant is kept as the seconds elapsed    *)
(* since it was taken, saturating at two windows; estimated_tokens stays    *)
(* far below 2^32 (it is a quarter of the request's length), so the u32     *)
(* sums of can_consume and consume do not wrap.                             *)

Tenants == {"alice", "bob"}

TierNames == {"free", "pro", "enterprise"}

RunIds == {1, 2}

\* Option::None of a daily limit
Unlimited == -1

\* BillingManager::new: tier_configs
BillingTiers ==
    [t \in TierNames |->
       CASE t = "free" ->
              [requests_per_day |-> 100, tokens_per_day |-> 10000,
               budget_per_day_usd |-> 1000, cost_multiplier |-> 10]
         [] t = "pro" ->
              [requests_per_day |-> 10000, tokens_per_day |-> 1000000,
               budget_per_day_usd |-> 50000, cost_multiplier |-> 8]
         [] t = "enterprise" ->
              [requests_per_day |-> Unlimited, tokens_per_day |-> Unlimited,
               budget_per_day_usd |-> Unlimited, cost_multiplier |-> 6]]

\* AdaptiveRateLimiter::new: tier_configs
RateLimitConfigs ==
    [t \in TierNames |->
       CASE t = "free" ->
              [requests_per_minute |-> 20, tokens_per_minute |-> 2000,
               burst_allowance |-> 5, window_size |-> 60]
         [] t = "pro" ->
              [requests_per_minute |-> 200, tokens_per_minute |-> 50000,
               burst_allowance |-> 20, window_size |-> 60]
         [] t = "enterprise" ->
              [requests_per_minute |-> 1000, tokens_per_minute |-> 500000,
               burst_allowance |-> 100, window_size |-> 60]]

\* estimated_tokens of a call: none, the free tier's tokens_per_minute, more
\* than any tier's tokens_per_minute
LargeEstimate == RateLimitConfigs["free"].tokens_per_minute

HugeEstimate == RateLimitConfigs["enterprise"].tokens_per_minute + 1

Estimates == {0, LargeEstimate, HugeEstimate}

\* an Instant's elapsed() saturates at two windows
ElapsedCap == 2 * RateLimitConfigs["free"].window_size

\* check_rate_limit: the config of a tier name, the free one if unknown
ConfigOf(tier_name) ==
    IF tier_name \in DOMAIN RateLimitConfigs
    THEN RateLimitConfigs[tier_name] ELSE RateLimitConfigs["free"]

\* RateLimitBucket::new and RateLimitBucket::reset
NewBucket == [requests |-> 0, tokens |-> 0, elapsed |-> 0]

\* should_reset firing only after more than a window
should_reset_late(bucket, window_size) == bucket.elapsed > window_size

\* RateLimitBucket::should_reset
should_reset(bucket, window_size) == bucket.elapsed >= window_size

\* can_consume letting a request in when the request counter is at the cap
can_consume_at_cap(bucket, config, tokens_requested) ==
    /\ bucket.requests
         <= config.requests_per_minute + config.burst_allowance
    /\ bucket.tokens + tokens_requested <= config.tokens_per_minute

\* RateLimitBucket::can_consume
can_consume(bucket, config, tokens_requested) ==
    /\ bucket.requests < config.requests_per_minute + config.burst_allowance
    /\ bucket.tokens + tokens_requested <= config.tokens_per_minute

\* RateLimitBucket::consume
consume(bucket, tokens) ==
    [bucket EXCEPT !.requests = @ + 1, !.tokens = @ + tokens]

\* UserBilling::new with UsageTracker::default
NewUserBilling(tier_name) ==
    [tier |-> tier_name, requests_today |-> 0, tokens_today |-> 0,
     cost_today_usd |-> 0, last_reset |-> utc.day,
     monthly_spend_usd |-> 0, total_spend_usd |-> 0,
     last_billing_date |-> utc.month]

\* BillingManager::get_or_create_user_billing: the map it leaves
get_or_create_user_billing(map, user_id) ==
    IF user_id \in DOMAIN map THEN map
    ELSE [u \in DOMAIN map \cup {user_id} |->
            IF u = user_id THEN NewUserBilling("free") ELSE map[u]]

\* a daily limit taken as set even when it is None
CrossedUnset(limit, used) == used >= limit

\* a daily limit is set and reached
Crossed(limit, used) == limit # Unlimited /\ used >= limit

\* UserBilling::can_make_request
can_make_request(billing) ==
    /\ ~Crossed(BillingTiers[billing.tier].requests_per_day,
                billing.requests_today)
    /\ ~Crossed(BillingTiers[billing.tier].tokens_per_day,
                billing.tokens_today)
    /\ ~Crossed(BillingTiers[billing.tier].budget_per_day_usd,
                billing.cost_today_usd)

\* UsageTracker::add_usage: the daily reset if the date changed, then the
\* increments
add_usage(billing, tokens, cost_usd) ==
    LET reset == utc.day > billing.last_reset
    IN [billing EXCEPT
          !.requests_today = (IF reset THEN 0 ELSE @) + 1,
          !.tokens_today = (IF reset THEN 0 ELSE @) + tokens,
          !.cost_today_usd = (IF reset THEN 0 ELSE @) + cost_usd,
          !.last_reset = IF reset THEN utc.day ELSE @]

\* UserBilling::reset_monthly
reset_monthly(billing) ==
    IF utc.month # billing.last_billing_date
    THEN [billing EXCEPT !.monthly_spend_usd = 0,
                         !.last_billing_date = utc.month]
    ELSE billing

\* actual_cost = provider_cost_usd * cost_multiplier
ActualCost(tier_name, provider_cost_usd) ==
    (provider_cost_usd * BillingTiers[tier_name].cost_multiplier) \div 10

\* UserBilling::record_usage
record_usage(billing, tokens_used, provider_cost_usd) ==
    LET actual_cost == ActualCost(billing.tier, provider_cost_usd)
    IN [add_usage(billing, tokens_used, actual_cost) EXCEPT
          !.monthly_spend_usd = @ + actual_cost,
          !.total_spend_usd = @ + actual_cost]

\* no call in progress in this task
IdleRun == [pc |-> "idle", op |-> "none", user_id |-> "none",
            request |-> "none", estimated_tokens |-> 0, tier |-> "none",
            response |-> "none", total_tokens |-> 0,
            provider_cost_usd |-> 0, served_by |-> "none",
            service |-> "none", result |-> "none"]

\* the call of this task has returned this result
Returned(result) == [IdleRun EXCEPT !.pc = "returned", !.result = result]

\* chat_completion has returned Err(error); the record keeps the tier that
\* check_rate_limit had looked up
Failed(run, error) ==
    [IdleRun EXCEPT !.pc = "returned", !.op = run.op,
                    !.user_id = run.user_id, !.tier = run.tier,
                    !.result = error]

\* chat_completion has returned Ok(response), from the cache or from a
\* provider
Served(run, by) ==
    [IdleRun EXCEPT !.pc = "returned", !.op = run.op,
                    !.user_id = run.user_id, !.request = run.request,
                    !.served_by = by, !.result = run.response]

\* OmenRouter.cache is None: no Redis configured
NoCache == [enabled |-> FALSE, response |-> << >>, hits |-> << >>]

\* OmenRouter.cache is Some: a Redis without keys
EmptyCache == [enabled |-> TRUE, response |-> << >>, hits |-> << >>]

\* Option::None of OmenConfig.k
NoneK == -1

\* AdvancedRouter::new: no metrics measured, no budget set
NewAdvancedRouter == [metrics |-> << >>, cost_budgets |-> << >>]

\* no streaming request has been routed yet
NoDecision ==
    [routed |-> FALSE, user_id |-> "none", has_omen |-> FALSE,
     omen_strategy |-> "none", omen_k |-> NoneK, intent |-> "none",
     candidates |-> << >>, result |-> "none", selected |-> << >>,
     selected_providers |-> << >>, multiplexed |-> FALSE,
     strategy |-> [kind |-> "none", k |-> 0, delay_ms |-> 0]]

\* the state after OmenRouter::new: empty maps, no call in progress
RouterWith(redis, hashers) ==
    /\ user_billing = << >>
    /\ usage_history = << >>
    /\ buckets = << >>
    /\ utc = [day |-> 0, month |-> 0]
    /\ runs = [r \in RunIds |-> IdleRun]
    /\ cache = redis
    /\ hasher \in hashers
    /\ advanced_router = NewAdvancedRouter
    /\ decision = NoDecision

\* the same where no string key is built: the hasher is left out
RouterStart(redis) == RouterWith(redis, { << >> })

\* a router without a cache
RouterInit == RouterStart(NoCache)

----------------------------------------------------------------------------
(* Initial state: multiplex_stream has returned the output stream *)

MuxInit(strategies, lists, budgets) ==
    /\ strategy \in strategies
    /\ providers \in lists
    /\ budget_cap \in budgets
    /\ muxResult \in MultiplexResults(strategy, providers)
    /\ drvPc = [p \in ProviderIds |->
                  IF p \in SpawnedAtStart(strategy, providers)
                  THEN "opening"
                  ELSE IF Mode(strategy, providers) = "single"
                          /\ p = first(providers) /\ muxResult = "Ok"
                  THEN "direct"
                  ELSE "unspawned"]
    /\ produced = [p \in ProviderIds |-> <<>>]
    /\ chan = <<>>
    /\ cancelled = FALSE
    /\ coordPc = IF Mode(strategy, providers) = "single"
                 THEN "absent" ELSE "running"
    /\ coordExit = "none"
    /\ winner = NoProvider
    /\ total_cost = 0
    /\ token_count = 0
    /\ current_provider = NoProvider
    /\ can_upgrade = TRUE
    /\ output = <<>>
    /\ outputOpen = TRUE
    /\ deadlineElapsed = FALSE
    /\ cloudSpawned = FALSE

\* a multiplexed run in a router that admits nothing meanwhile
InitFor(strategies, lists, budgets) ==
    MuxInit(strategies, lists, budgets) /\ RouterInit

\* a run over the configured provider list
InitWith(strategies, budgets) == InitFor(strategies, ProviderLists, budgets)

coordVars == <<coordPc, coordExit, winner, total_cost, token_count,
               current_provider, can_upgrade, output, cancelled>>

\* what no step of a multiplexed run changes: its configuration and the
\* router's admission state
cfgVars == <<strategy, providers, budget_cap, muxResult,
             user_billing, usage_history, buckets, utc, runs, cache,
             hasher, advanced_router, decision>>

----------------------------------------------------------------------------
(* Driver task: stream_provider_with_events *)

\* provider.stream_chat_completion(..).await returned Ok(stream)
DriverOpenOk(p) ==
    /\ drvPc[p] = "opening"
    /\ drvPc' = [drvPc EXCEPT ![p] = "streaming"]
    /\ UNCHANGED <<cfgVars, coordVars, produced, chan, outputOpen,
                   deadlineElapsed, cloudSpawned>>

\* provider.stream_chat_completion(..).await returned Err(e)
DriverOpenErr(p) ==
    /\ drvPc[p] = "opening"
    /\ TxReady
    /\ chan' = TxSend(chan, coordPc = "running", ErrorEvent(p, "open_failed"))
    /\ drvPc' = [drvPc EXCEPT ![p] = "error"]
    /\ UNCHANGED <<cfgVars, coordVars, produced, outputOpen,
                   deadlineElapsed, cloudSpawned>>

\* a driver that goes on reading its stream after the cancelled branch
DriverChunkAfterCancel(p, c) ==
    /\ drvPc[p] \in {"streaming", "cancelled"}
    /\ Len(produced[p]) < MaxChunks
    /\ TxReady
    /\ produced' = [produced EXCEPT ![p] = Append(@, c)]
    /\ chan' = TxSend(chan, coordPc = "running",
                      TokenEvent(p, c, Len(produced[p]) + 1))
    /\ UNCHANGED <<cfgVars, coordVars, drvPc, outputOpen,
                   deadlineElapsed, cloudSpawned>>

\* stream.next() yielded Some(Ok(chunk))
DriverChunk(p, c) ==
    /\ drvPc[p] = "streaming"
    /\ Len(produced[p]) < MaxChunks
    /\ TxReady
    /\ produced' = [produced EXCEPT ![p] = Append(@, c)]
    /\ chan' = TxSend(chan, coordPc = "running",
                      TokenEvent(p, c, Len(produced[p]) + 1))
    /\ UNCHANGED <<cfgVars, coordVars, drvPc, outputOpen,
                   deadlineElapsed, cloudSpawned>>

\* stream.next() yielded Some(Err(e))
DriverStreamErr(p) ==
    /\ drvPc[p] = "streaming"
    /\ TxReady
    /\ chan' = TxSend(chan, coordPc = "running", ErrorEvent(p, "stream_failed"))
    /\ drvPc' = [drvPc EXCEPT ![p] = "error"]
    /\ UNCHANGED <<cfgVars, coordVars, produced, outputOpen,
                   deadlineElapsed, cloudSpawned>>

\* the None arm without its break: Done is sent and the loop goes on
DriverStreamEndNoBreak(p) ==
    /\ drvPc[p] = "streaming"
    /\ TxReady
    /\ chan' = TxSend(chan, coordPc = "running",
                      DoneEvent(p, Len(produced[p])))
    /\ UNCHANGED <<cfgVars, coordVars, drvPc, produced, outputOpen,
                   deadlineElapsed, cloudSpawned>>

\* stream.next() yielded None
DriverStreamEnd(p) ==
    /\ drvPc[p] = "streaming"
    /\ TxReady
    /\ chan' = TxSend(chan, coordPc = "running",
                      DoneEvent(p, Len(produced[p])))
    /\ drvPc' = [drvPc EXCEPT ![p] = "done"]
    /\ UNCHANGED <<cfgVars, coordVars, produced, outputOpen,
                   deadlineElapsed, cloudSpawned>>

\* the select! took the cancel_token.cancelled() branch
DriverCancelled(p) ==
    /\ drvPc[p] = "streaming"
    /\ cancelled
    /\ drvPc' = [drvPc EXCEPT ![p] = "cancelled"]
    /\ UNCHANGED <<cfgVars, coordVars, produced, chan, outputOpen,
                   deadlineElapsed, cloudSpawned>>

DriverExited(p) == drvPc[p] \in {"done", "error", "cancelled"}

\* every Sender of the event channel has been dropped
AllSendersDropped ==
    /\ \A p \in Drivers : DriverExited(p)
    /\ Mode(strategy, providers) = "speculate" => cloudSpawned

----------------------------------------------------------------------------
(* Race coordinator: the task spawned by race_providers.  The specifications *)
(* SpecRace, SpecSpeculate, SpecMux and SpecScenario are the runs whose      *)
(* caller holds the output stream throughout; SpecDisconnect adds the drop.  *)

\* RaceElects without the winner.is_none() test
RaceElectsAgain(ev, w) == is_useful_token(ev.chunk, min_useful_tokens)

\* Token arm, first if: this event elects its provider
RaceElects(ev, w) ==
    is_useful_token(ev.chunk, min_useful_tokens) /\ w = NoProvider

\* RaceForwards without the winner test, once a winner exists
RaceForwardsAnyProvider(ev, w) == w # NoProvider

\* RaceForwards that also drops the winner's chunks that are not useful
RaceForwardsUsefulOnly(ev, w) ==
    w = ev.provider_id /\ is_useful_token(ev.chunk, min_useful_tokens)

\* Token arm, second if: this chunk is sent on stream_tx
RaceForwards(ev, w) == w = ev.provider_id

\* Done arm: the winner's Done ends the loop
RaceDoneBreaks(ev, w) == w = ev.provider_id

\* RaceErrorBreaks without the winner test
RaceErrorBreaksAnyProvider(ev, w) == TRUE

\* Error arm: the winner's Error is sent on stream_tx and ends the loop
RaceErrorBreaks(ev, w) == w = ev.provider_id

\* the budget check that follows the match
BudgetExceeded(cost, cap) == cost > cap

\* event = rx.recv() yielded Some(event)
RaceRecv ==
    /\ Mode(strategy, providers) = "race"
    /\ coordPc = "running"
    /\ chan # <<>>
    /\ LET ev      == Head(chan)
           isTok   == ev.type = "Token"
           elect   == isTok /\ RaceElects(ev, winner)
           w       == IF elect THEN ev.provider_id ELSE winner
           fwd     == isTok /\ RaceForwards(ev, w)
           doneBrk == ev.type = "Done" /\ RaceDoneBreaks(ev, winner)
           errBrk  == ev.type = "Error" /\ RaceErrorBreaks(ev, winner)
           cost    == IF doneBrk THEN total_cost + ev.cost_usd ELSE total_cost
           budBrk  == ~doneBrk /\ ~errBrk /\ BudgetExceeded(cost, budget_cap)
           brk     == doneBrk \/ errBrk \/ budBrk
       IN
       /\ winner' = w
       /\ token_count' = IF fwd THEN token_count + 1 ELSE token_count
       /\ total_cost' = cost
       /\ output' = IF fwd THEN StreamSend(output, outputOpen, OkItem(ev))
                    ELSE IF errBrk
                         THEN StreamSend(output, outputOpen, ErrItem(ev))
                         ELSE output
       /\ cancelled' = (cancelled \/ elect \/ budBrk)
       /\ coordPc' = IF brk THEN "finished" ELSE "running"
       /\ coordExit' = IF doneBrk THEN "done"
                       ELSE IF errBrk THEN "error"
                       ELSE IF budBrk THEN "budget"
                       ELSE coordExit
       /\ chan' = IF brk THEN <<>> ELSE Tail(chan)
    /\ UNCHANGED <<cfgVars, drvPc, produced, current_provider, can_upgrade,
                   outputOpen, deadlineElapsed, cloudSpawned>>

\* event = rx.recv() yielded None
RaceRecvNone ==
    /\ Mode(strategy, providers) = "race"
    /\ coordPc = "running"
    /\ chan = <<>>
    /\ AllSendersDropped
    /\ coordPc' = "finished"
    /\ coordExit' = "closed"
    /\ UNCHANGED <<cfgVars, drvPc, produced, chan, cancelled, winner,
                   total_cost, token_count, current_provider, can_upgrade,
                   output, outputOpen, deadlineElapsed, cloudSpawned>>

\* the select! took the timeout_future branch
RaceTimeout ==
    /\ Mode(strategy, providers) = "race"
    /\ coordPc = "running"
    /\ deadlineElapsed
    /\ cancelled' = TRUE
    /\ coordPc' = "finished"
    /\ coordExit' = "timeout"
    /\ chan' = <<>>
    /\ UNCHANGED <<cfgVars, drvPc, produced, winner, total_cost, token_count,
                   current_provider, can_upgrade, output, outputOpen,
                   deadlineElapsed, cloudSpawned>>

----------------------------------------------------------------------------
(* Speculative coordinator: the task spawned by speculate_with_delay *)

\* Token arm: the first token makes its provider the current one
SpecStarts(ev, cur) == cur = NoProvider

\* SpecUpgrades without the can_upgrade test
SpecUpgradesAgain(ev, cur, can) ==
    /\ cur # NoProvider
    /\ ev.provider_id # cur
    /\ should_upgrade(ev.chunk)

\* Token arm: this chunk switches the current provider
SpecUpgrades(ev, cur, can) ==
    /\ cur # NoProvider
    /\ can
    /\ ev.provider_id # cur
    /\ should_upgrade(ev.chunk)

\* Token arm, last if: this chunk is sent on stream_tx
SpecForwards(ev, cur) == cur = ev.provider_id

\* Done arm: the current provider's Done cancels and ends the loop
SpecDoneBreaks(ev, cur) == cur = ev.provider_id

\* an Error arm that ends the loop whoever sent the Error
SpecErrorBreaksAnyProvider(ev, cur) == TRUE

\* Error arm: the current provider's Error is sent and ends the loop
SpecErrorBreaks(ev, cur) == cur = ev.provider_id

\* while let Some(event) = rx.recv().await
SpecRecv ==
    /\ Mode(strategy, providers) = "speculate"
    /\ coordPc = "running"
    /\ chan # <<>>
    /\ LET ev      == Head(chan)
           isTok   == ev.type = "Token"
           start   == isTok /\ SpecStarts(ev, current_provider)
           upg     == isTok /\ ~start
                      /\ SpecUpgrades(ev, current_provider, can_upgrade)
           cur     == IF start \/ upg THEN ev.provider_id
                      ELSE current_provider
           fwd     == isTok /\ SpecForwards(ev, cur)
           doneBrk == ev.type = "Done" /\ SpecDoneBreaks(ev, current_provider)
           errBrk  == ev.type = "Error"
                      /\ SpecErrorBreaks(ev, current_provider)
           brk     == doneBrk \/ errBrk
       IN
       /\ current_provider' = cur
       /\ can_upgrade' = (can_upgrade /\ ~upg)
       /\ output' = IF fwd THEN StreamSend(output, outputOpen, OkItem(ev))
                    ELSE IF errBrk
                         THEN StreamSend(output, outputOpen, ErrItem(ev))
                         ELSE output
       /\ cancelled' = (cancelled \/ doneBrk)
       /\ coordPc' = IF brk THEN "finished" ELSE "running"
       /\ coordExit' = IF doneBrk THEN "done"
                       ELSE IF errBrk THEN "error"
                       ELSE coordExit
       /\ chan' = IF brk THEN <<>> ELSE Tail(chan)
    /\ UNCHANGED <<cfgVars, drvPc, produced, winner, total_cost, token_count,
                   outputOpen, deadlineElapsed, cloudSpawned>>

\* rx.recv().await yielded None: the while let loop ends
SpecRecvNone ==
    /\ Mode(strategy, providers) = "speculate"
    /\ coordPc = "running"
    /\ chan = <<>>
    /\ AllSendersDropped
    /\ coordPc' = "finished"
    /\ coordExit' = "closed"
    /\ UNCHANGED <<cfgVars, drvPc, produced, chan, cancelled, winner,
                   total_cost, token_count, current_provider, can_upgrade,
                   output, outputOpen, deadlineElapsed, cloudSpawned>>

\* the cloud spawner: sleep(delay_ms) is over, the cloud drivers are spawned
CloudSpawn ==
    /\ Mode(strategy, providers) = "speculate"
    /\ ~cloudSpawned
    /\ cloudSpawned' = TRUE
    /\ drvPc' = [p \in ProviderIds |->
                   IF p \in cloud_providers(providers, K)
                   THEN "opening" ELSE drvPc[p]]
    /\ UNCHANGED <<cfgVars, coordVars, produced, chan, outputOpen,
                   deadlineElapsed>>

----------------------------------------------------------------------------
(* Environment *)

\* max_latency has elapsed: tokio::time::sleep(max_latency) is ready
DeadlineTimer ==
    /\ coordPc = "running"
    /\ ~deadlineElapsed
    /\ deadlineElapsed' = TRUE
    /\ UNCHANGED <<cfgVars, coordVars, drvPc, produced, chan, outputOpen,
                   cloudSpawned>>

\* the caller drops the output stream (stream_rx)
CallerDrop ==
    /\ coordPc = "running"
    /\ outputOpen
    /\ outputOpen' = FALSE
    /\ UNCHANGED <<cfgVars, coordVars, drvPc, produced, chan,
                   deadlineElapsed, cloudSpawned>>

\* a Race run: the strategies that multiplex_stream hands to race_providers
InitRace == InitWith({"race"}, Budgets)

NextRace ==
    \/ \E p \in ProviderIds : DriverOpenOk(p)
    \/ \E p \in ProviderIds : DriverOpenErr(p)
    \/ \E p \in ProviderIds, c \in Chunks : DriverChunk(p, c)
    \/ \E p \in ProviderIds : DriverStreamErr(p)
    \/ \E p \in ProviderIds : DriverStreamEnd(p)
    \/ \E p \in ProviderIds : DriverCancelled(p)
    \/ RaceRecv
    \/ RaceRecvNone
    \/ RaceTimeout
    \/ DeadlineTimer

SpecRace == InitRace /\ [][NextRace]_vars

\* a SpeculateK run with a local provider
\* (speculate_with_delay never reads budget_cap)
InitSpeculate == InitWith({"speculate_k"}, {DefaultBudget})

NextSpeculate ==
    \/ \E p \in ProviderIds : DriverOpenOk(p)
    \/ \E p \in ProviderIds : DriverOpenErr(p)
    \/ \E p \in ProviderIds, c \in Chunks : DriverChunk(p, c)
    \/ \E p \in ProviderIds : DriverStreamErr(p)
    \/ \E p \in ProviderIds : DriverStreamEnd(p)
    \/ \E p \in ProviderIds : DriverCancelled(p)
    \/ SpecRecv
    \/ SpecRecvNone
    \/ CloudSpawn
    \/ DeadlineTimer

SpecSpeculate == InitSpeculate /\ [][NextSpeculate]_vars

\* a run under any multiplexing strategy
InitMux ==
    \/ InitWith({"race", "parallel_merge"}, Budgets)
    \/ InitSpeculate

NextMux ==
    \/ \E p \in ProviderIds : DriverOpenOk(p)
    \/ \E p \in ProviderIds : DriverOpenErr(p)
    \/ \E p \in ProviderIds, c \in Chunks : DriverChunk(p, c)
    \/ \E p \in ProviderIds : DriverStreamErr(p)
    \/ \E p \in ProviderIds : DriverStreamEnd(p)
    \/ \E p \in ProviderIds : DriverCancelled(p)
    \/ RaceRecv
    \/ RaceRecvNone
    \/ RaceTimeout
    \/ SpecRecv
    \/ SpecRecvNone
    \/ CloudSpawn
    \/ DeadlineTimer

SpecMux == InitMux /\ [][NextMux]_vars

\* a run whose caller may drop the output stream at any moment
NextDisconnect ==
    \/ NextMux
    \/ CallerDrop

SpecDisconnect == InitMux /\ [][NextDisconnect]_vars

----------------------------------------------------------------------------
(* The Single strategy: run_single returns the stream of the first provider  *)
(* itself, which the caller polls; there is neither driver nor coordinator.  *)

\* the provider stream yields Some(Ok(chunk))
SingleChunk(c) ==
    /\ providers # <<>>
    /\ drvPc[first(providers)] = "direct"
    /\ outputOpen
    /\ Len(produced[first(providers)]) < MaxChunks
    /\ LET p == first(providers)
           ev == TokenEvent(p, c, Len(produced[p]) + 1)
       IN /\ produced' = [produced EXCEPT ![p] = Append(@, c)]
          /\ output' = Append(output, OkItem(ev))
    /\ UNCHANGED <<cfgVars, drvPc, chan, cancelled, coordPc, coordExit,
                   winner, total_cost, token_count, current_provider,
                   can_upgrade, outputOpen, deadlineElapsed, cloudSpawned>>

\* the provider stream yields Some(Err(e))
SingleStreamErr ==
    /\ providers # <<>>
    /\ drvPc[first(providers)] = "direct"
    /\ outputOpen
    /\ drvPc' = [drvPc EXCEPT ![first(providers)] = "error"]
    /\ output' = Append(output,
                        ErrItem(ErrorEvent(first(providers), "stream_failed")))
    /\ UNCHANGED <<cfgVars, produced, chan, cancelled, coordPc, coordExit,
                   winner, total_cost, token_count, current_provider,
                   can_upgrade, outputOpen, deadlineElapsed, cloudSpawned>>

\* the provider stream yields None
SingleStreamEnd ==
    /\ providers # <<>>
    /\ drvPc[first(providers)] = "direct"
    /\ outputOpen
    /\ drvPc' = [drvPc EXCEPT ![first(providers)] = "done"]
    /\ UNCHANGED <<cfgVars, coordVars, produced, chan, outputOpen,
                   deadlineElapsed, cloudSpawned>>

\* every strategy of multiplex_stream, over the configured provider list and
\* over an empty one
CandidateLists == ProviderLists \cup { <<>> }

AllStrategies == Strategies \cup {"single"}

InitDispatch == InitFor(AllStrategies, CandidateLists, {DefaultBudget})

NextDispatch ==
    \/ NextMux
    \/ \E c \in Chunks : SingleChunk(c)
    \/ SingleStreamErr
    \/ SingleStreamEnd

SpecDispatch == InitDispatch /\ [][NextDispatch]_vars

----------------------------------------------------------------------------
(* The race of end-to-end scenario 2: A = ollama, B = openai, the directive *)
(* defaults, and the three chunks emitted in the order A, B, A.             *)

ScenarioEmissions ==
    << [provider_id |-> "ollama", chunk |-> Space],
       [provider_id |-> "openai", chunk |-> FortyTwo],
       [provider_id |-> "ollama", chunk |-> Hello] >>

Emitted == Len(produced["ollama"]) + Len(produced["openai"])

InitScenario == InitWith({"race"}, {DefaultBudget})

\* the next chunk of the scenario is yielded by its provider's stream
ScenarioChunk ==
    /\ Emitted < Len(ScenarioEmissions)
    /\ DriverChunk(ScenarioEmissions[Emitted + 1].provider_id,
                   ScenarioEmissions[Emitted + 1].chunk)

NextScenario ==
    \/ \E p \in ProviderIds : DriverOpenOk(p)
    \/ \E p \in ProviderIds : DriverOpenErr(p)
    \/ ScenarioChunk
    \/ \E p \in ProviderIds : DriverStreamErr(p)
    \/ \E p \in ProviderIds : DriverStreamEnd(p)
    \/ \E p \in ProviderIds : DriverCancelled(p)
    \/ RaceRecv
    \/ RaceRecvNone
    \/ RaceTimeout
    \/ DeadlineTimer

SpecScenario == InitScenario /\ [][NextScenario]_vars

----------------------------------------------------------------------------
(* The rate limiter: AdaptiveRateLimiter::check_rate_limit reads the tier   *)
(* under the billing lock, then tests and updates the bucket under the      *)
(* write lock of the bucket map.                                            *)

muxVars == <<strategy, providers, budget_cap, muxResult, drvPc, produced,
             chan, coordVars, outputOpen, deadlineElapsed, cloudSpawned,
             hasher, advanced_router, decision>>

\* HashMap::insert writing the value under every key of the map
PutAll(map, key, value) ==
    [k \in DOMAIN map \cup {key} |-> value]

\* HashMap::insert / the write through entry(key)
Put(map, key, value) ==
    [k \in DOMAIN map \cup {key} |-> IF k = key THEN value ELSE map[k]]

\* the bucket check_rate_limit works on: entry(user_id).or_insert_with(new),
\* reset if its window expired
CurrentBucket(map, user_id, config) ==
    LET bucket == IF user_id \in DOMAIN map THEN map[user_id] ELSE NewBucket
    IN IF should_reset(bucket, config.window_size) THEN NewBucket ELSE bucket

\* check_rate_limit is called and looks up the caller's tier
CheckRateLimitCall(r, u, est) ==
    /\ runs[r].pc \in {"idle", "returned"}
    /\ u \in DOMAIN buckets =>
          buckets[u].requests <
             (IF u = "alice" THEN MaxRequests ELSE MaxOtherRequests)
    /\ user_billing' = get_or_create_user_billing(user_billing, u)
    /\ runs' = [runs EXCEPT ![r] =
                  [IdleRun EXCEPT !.pc = "bucket", !.op = "check_rate_limit",
                                  !.user_id = u, !.estimated_tokens = est,
                                  !.tier = user_billing'[u].tier]]
    /\ UNCHANGED <<muxVars, cache, usage_history, buckets, utc>>

\* check_rate_limit consuming the quota before the test
CheckRateLimitBucketChargesDenied(r) ==
    /\ runs[r].pc = "bucket"
    /\ LET u      == runs[r].user_id
           est    == runs[r].estimated_tokens
           config == ConfigOf(runs[r].tier)
           bucket == CurrentBucket(buckets, u, config)
           ok     == can_consume(bucket, config, est)
       IN /\ buckets' = Put(buckets, u,
                            consume(bucket, est))
          /\ runs' = [runs EXCEPT ![r] =
                        IF @.op \in {"check_rate_limit",
                                     "check_ghost_service_limit"}
                        THEN Returned(IF ok THEN "Ok"
                                      ELSE "RateLimitExceeded")
                        ELSE IF ok THEN [@ EXCEPT !.pc = "provider"]
                        ELSE Failed(@, "RateLimitExceeded")]
    /\ UNCHANGED <<muxVars, cache, user_billing, usage_history, utc>>

\* check_rate_limit under buckets.write(): reset, test, consume
CheckRateLimitBucket(r) ==
    /\ runs[r].pc = "bucket"
    /\ LET u      == runs[r].user_id
           est    == runs[r].estimated_tokens
           config == ConfigOf(runs[r].tier)
           bucket == CurrentBucket(buckets, u, config)
           ok     == can_consume(bucket, config, est)
       IN /\ buckets' = Put(buckets, u,
                            IF ok THEN consume(bucket, est) ELSE bucket)
          /\ runs' = [runs EXCEPT ![r] =
                        IF @.op \in {"check_rate_limit",
                                     "check_ghost_service_limit"}
                        THEN Returned(IF ok THEN "Ok"
                                      ELSE "RateLimitExceeded")
                        ELSE IF ok THEN [@ EXCEPT !.pc = "provider"]
                        ELSE Failed(@, "RateLimitExceeded")]
    /\ UNCHANGED <<muxVars, cache, user_billing, usage_history, utc>>

\* GhostAIRateLimiter::new: service_priorities
ServicePriorities ==
    [s \in {"ghostllm", "ghostflow", "zeke", "jarvis", "external",
            "development"} |->
       CASE s = "ghostllm" -> 255
         [] s = "ghostflow" -> 200
         [] s = "zeke" -> 180
         [] s = "jarvis" -> 160
         [] s = "external" -> 100
         [] OTHER -> 50]

\* service names of the callers: the configured ones and an unknown one
ServiceNames == DOMAIN ServicePriorities \cup {"unknown"}

\* service_priorities.get(service_name).unwrap_or(&100)
PriorityOf(service_name) ==
    IF service_name \in DOMAIN ServicePriorities
    THEN ServicePriorities[service_name] ELSE ServicePriorities["external"]

\* the multiplier table of check_enhanced_rate_limit and of
\* get_ghost_service_status, in tenths
enhanced_multiplier(priority) ==
    CASE priority = 255 -> 50
      [] priority = 200 -> 30
      [] priority = 180 -> 25
      [] priority = 160 -> 20
      [] OTHER -> 10

\* check_ghost_service_limit is called: at priority 200 and above through
\* check_enhanced_rate_limit, which computes _multiplier and leaves it
\* unused; either way the call is adaptive_limiter.check_rate_limit
CheckGhostServiceLimitCall(r, service_name, u, est) ==
    /\ runs[r].pc \in {"idle", "returned"}
    /\ u \in DOMAIN buckets =>
          buckets[u].requests <
             (IF u = "alice" THEN MaxRequests ELSE MaxOtherRequests)
    /\ user_billing' = get_or_create_user_billing(user_billing, u)
    /\ runs' = [runs EXCEPT ![r] =
                  [IdleRun EXCEPT !.pc = "bucket",
                                  !.op = "check_ghost_service_limit",
                                  !.service = service_name,
                                  !.user_id = u, !.estimated_tokens = est,
                                  !.tier = user_billing'[u].tier]]
    /\ UNCHANGED <<muxVars, cache, usage_history, buckets, utc>>

\* BillingManager::update_user_tier with a known tier name
UpdateUserTier(u, tier_name) ==
    /\ user_billing' =
         IF u \in DOMAIN user_billing
         THEN [user_billing EXCEPT ![u].tier = tier_name]
         ELSE Put(user_billing, u, NewUserBilling(tier_name))
    /\ user_billing' # user_billing
    /\ UNCHANGED <<muxVars, cache, usage_history, buckets, utc, runs>>

\* TickSeconds of the monotonic clock pass
Tick ==
    /\ \E u \in DOMAIN buckets : buckets[u].elapsed < ElapsedCap
    /\ buckets' = [u \in DOMAIN buckets |->
                     [buckets[u] EXCEPT
                        !.elapsed = Min(@ + TickSeconds, ElapsedCap)]]
    /\ UNCHANGED <<muxVars, cache, user_billing, usage_history, utc, runs>>

\* no streaming run: a multiplexer without providers
InitRouter == InitFor({"single"}, { <<>> }, {DefaultBudget})

\* one tenant calling check_rate_limit one call after the other, over
\* window expiries and tier changes
NextWindow ==
    \/ \E est \in Estimates : CheckRateLimitCall(1, "alice", est)
    \/ CheckRateLimitBucket(1)
    \/ \E t \in TierNames : UpdateUserTier("alice", t)
    \/ Tick

SpecWindow == InitRouter /\ [][NextWindow]_vars

\* two tasks calling check_rate_limit concurrently for either tenant
NextLimiter ==
    \/ \E r \in RunIds, u \in Tenants, est \in {0, LargeEstimate} :
          CheckRateLimitCall(r, u, est)
    \/ \E r \in RunIds : CheckRateLimitBucket(r)
    \/ Tick

SpecLimiter == InitRouter /\ [][NextLimiter]_vars

\* the age from which cleanup_expired_buckets drops a bucket, in seconds
CleanupAge == 120

\* a retain that drops every bucket older than half a minute
CleanupExpiredBucketsEarly ==
    /\ \E u \in DOMAIN buckets : buckets[u].elapsed >= TickSeconds
    /\ buckets' = [u \in { v \in DOMAIN buckets :
                              buckets[v].elapsed < TickSeconds } |->
                     buckets[u]]
    /\ UNCHANGED <<muxVars, cache, user_billing, usage_history, utc, runs>>

\* cleanup_expired_buckets under buckets.write(): retain the buckets whose
\* window started less than two minutes ago (a run that drops a bucket)
CleanupExpiredBuckets ==
    /\ \E u \in DOMAIN buckets : buckets[u].elapsed >= CleanupAge
    /\ buckets' = [u \in { v \in DOMAIN buckets :
                              buckets[v].elapsed < CleanupAge } |->
                     buckets[u]]
    /\ UNCHANGED <<muxVars, cache, user_billing, usage_history, utc, runs>>

\* two tasks calling check_rate_limit for either tenant while the cleanup
\* runs at any point in between
NextCleanup ==
    \/ \E r \in RunIds, u \in Tenants, est \in {0, LargeEstimate} :
          CheckRateLimitCall(r, u, est)
    \/ \E r \in RunIds : CheckRateLimitBucket(r)
    \/ Tick
    \/ CleanupExpiredBuckets

SpecCleanup == InitRouter /\ [][NextCleanup]_vars

\* one tenant's services calling check_ghost_service_limit one call after
\* the other, over window expiries
NextGhost ==
    \/ \E s \in ServiceNames, est \in {0, LargeEstimate} :
          CheckGhostServiceLimitCall(1, s, "alice", est)
    \/ CheckRateLimitBucket(1)
    \/ Tick

SpecGhost == InitRouter /\ [][NextGhost]_vars

----------------------------------------------------------------------------
(* The adaptive router: AdvancedRouter (src/src/routing.rs) and the         *)
(* candidate selection of OmenRouter (src/src/router.rs).  The f64 values   *)
(* are fixed-point integers: latencies in ms, rates, qualities, loads and   *)
(* component scores in thousandths, prices and costs in units of 0.0001    *)
(* USD, weights in tenths; divisions round down.  A provider score is the   *)
(* code's score times 50,000,000.  The router's metrics are updated by      *)
(* chat_completion after the ledger is written (router.rs:132), which is    *)
(* part of the action RecordUsageHistory; UpdateProviderMetrics is the      *)
(* router's public method called with any provider.  The field             *)
(* samples of a metrics record counts the responses folded into it; the     *)
(* code has no such field, the model bounds the updates with it.            *)

\* the providers ProviderRegistry::new has registered
RegistryIds == {"ollama", "openai", "anthropic"}

\* orders in which ProviderRegistry::all can iterate its HashMap
InsertionOrder == <<"ollama", "openai", "anthropic">>

RegistryOrders == { InsertionOrder, <<"anthropic", "openai", "ollama">> }

\* the model ids a provider's list_models returns
ListedModels(provider_id) == {"m"}

\* config.routing.prefer_local_for of Config::default
PreferLocalFor == {"code", "regex", "tests"}

Max(a, b) == IF a > b THEN a ELSE b

\* ProviderMetrics::default
DefaultMetrics ==
    [avg_latency_ms |-> 1000, success_rate |-> 950,
     cost_per_1k_tokens |-> 100, quality_score |-> 800,
     current_load |-> 500, availability |-> 990, samples |-> 0]

get_default_metrics_for_provider(provider_id, metrics) ==
    CASE provider_id = "ollama" ->
           [metrics EXCEPT !.avg_latency_ms = 500, !.cost_per_1k_tokens = 0,
                           !.quality_score = 700, !.availability = 950]
      [] provider_id = "openai" ->
           [metrics EXCEPT !.avg_latency_ms = 1500,
                           !.cost_per_1k_tokens = 300,
                           !.quality_score = 900, !.availability = 990]
      [] provider_id = "anthropic" ->
           [metrics EXCEPT !.avg_latency_ms = 1200,
                           !.cost_per_1k_tokens = 150,
                           !.quality_score = 950, !.availability = 980]
      [] OTHER -> metrics

\* self.metrics.get(provider_id).cloned().unwrap_or_else(defaults)
MetricsOf(router, provider_id) ==
    IF provider_id \in DOMAIN router.metrics
    THEN router.metrics[provider_id]
    ELSE get_default_metrics_for_provider(provider_id, DefaultMetrics)

\* self.latency_targets.get(intent).unwrap_or(&3000)
LatencyTarget(intent) ==
    CASE intent = "code" -> 2000
      [] intent = "tests" -> 3000
      [] intent = "analysis" -> 5000
      [] OTHER -> 3000

calculate_latency_score(avg_latency_ms, target_latency_ms) ==
    IF avg_latency_ms <= target_latency_ms
    THEN 1000 - (200 * avg_latency_ms) \div target_latency_ms
    ELSE LET penalty ==
                 (1000 * (avg_latency_ms - target_latency_ms))
                     \div target_latency_ms
         IN  Max(1000 - Min(penalty, 1000), 0)

calculate_cost_score(cost_per_1k) ==
    Max(1000 - Min(cost_per_1k, 1000), 0)

\* (cost, latency, quality, reliability); RoutingStrategy::default otherwise
get_intent_weights(intent) ==
    CASE intent = "code" -> <<2, 5, 2, 1>>
      [] intent = "tests" -> <<3, 4, 2, 1>>
      [] intent = "analysis" -> <<2, 3, 4, 1>>
      [] intent = "explanation" -> <<4, 2, 3, 1>>
      [] intent = "regex" -> <<2, 6, 1, 1>>
      [] OTHER -> <<3, 4, 2, 1>>

calculate_provider_score(metrics, target_latency, intent) ==
    LET latency_score ==
            calculate_latency_score(metrics.avg_latency_ms, target_latency)
        cost_score == calculate_cost_score(metrics.cost_per_1k_tokens)
        quality_score == metrics.quality_score
        reliability_score ==
            (metrics.success_rate * metrics.availability) \div 1000
        w == get_intent_weights(intent)
        total_score == cost_score * w[1] + latency_score * w[2]
                       + quality_score * w[3] + reliability_score * w[4]
        load_penalty == 5000 - metrics.current_load
    IN  total_score * load_penalty

\* where a stable sort by descending score puts one more element
RECURSIVE InsertByScore(_, _)
InsertByScore(sorted, e) ==
    IF sorted = << >> THEN <<e>>
    ELSE IF Head(sorted).score >= e.score
    THEN <<Head(sorted)>> \o InsertByScore(Tail(sorted), e)
    ELSE <<e>> \o sorted

\* provider_scores.sort_by(|a, b| b.2.partial_cmp(&a.2)): stable
RECURSIVE sort_by_score(_)
sort_by_score(provider_scores) ==
    IF provider_scores = << >> THEN << >>
    ELSE LET n == Len(provider_scores)
         IN  InsertByScore(sort_by_score(SubSeq(provider_scores, 1, n - 1)),
                           provider_scores[n])

RECURSIVE SumOf(_, _)
SumOf(f, n) == IF n = 0 THEN 0 ELSE f[n] + SumOf(f, n - 1)

\* estimate_total_cost for a request of less than four characters without
\* max_tokens: no input tokens, 500 output tokens, a fifth of them for
\* every selected provider after the first
estimate_total_cost(selected) ==
    SumOf([i \in 1..Len(selected) |->
             IF i = 1 THEN selected[i].metrics.cost_per_1k_tokens \div 2
             ELSE selected[i].metrics.cost_per_1k_tokens \div 10],
          Len(selected))

\* AdvancedRouter::select_optimal_providers; an element of provider_scores
\* carries its position in the input in place of the Arc it holds
select_optimal_providers(router, candidates, intent, k) ==
    LET target_latency == LatencyTarget(intent)
        provider_scores ==
            [i \in 1..Len(candidates) |->
               [index |-> i, id |-> candidates[i],
                metrics |-> MetricsOf(router, candidates[i]),
                score |-> calculate_provider_score(
                              MetricsOf(router, candidates[i]),
                              target_latency, intent)]]
        sorted == sort_by_score(provider_scores)
        selected_count == Min(k, Len(sorted))
        selected == SubSeq(sorted, 1, selected_count)
    IN  [selected |-> selected,
         selected_providers |-> [i \in 1..selected_count |-> selected[i].id],
         estimated_cost |-> estimate_total_cost(selected)]

\* the providers of a list that are registered and answer the health check
HealthyOf(list, healthy) ==
    SelectSeq(list, LAMBDA p : p \in RegistryIds /\ p \in healthy)

\* OmenRouter::select_candidates_by_intent
select_candidates_by_intent(intent, healthy) ==
    (IF intent \in PreferLocalFor THEN HealthyOf(<<"ollama">>, healthy)
     ELSE << >>)
    \o HealthyOf(<<"anthropic", "openai", "google", "azure", "xai">>, healthy)

\* OmenRouter::select_candidates_by_model
select_candidates_by_model(model, order, healthy) ==
    SelectSeq(order, LAMBDA p : model \in ListedModels(p) /\ p \in healthy)

\* config.k.unwrap_or(2)
KOr2(k) == IF k = NoneK THEN 2 ELSE k

\* OmenRouter::select_candidates.  select_optimal_providers never returns
\* Err, so the fallback to priority_weights is not reachable.
select_candidates(router, model, intent, omen, order, healthy) ==
    LET candidates ==
            IF omen.providers_some THEN HealthyOf(omen.providers, healthy)
            ELSE IF model = "auto"
            THEN select_candidates_by_intent(intent, healthy)
            ELSE select_candidates_by_model(model, order, healthy)
        routing == select_optimal_providers(router, candidates, intent,
                                            KOr2(omen.k))
    IN  IF candidates = << >>
        THEN [ok |-> FALSE, error |-> "ProviderUnavailable",
              candidates |-> candidates, selected |-> << >>,
              selected_providers |-> << >>]
        ELSE [ok |-> TRUE, error |-> "none",
              candidates |-> candidates, selected |-> routing.selected,
              selected_providers |-> routing.selected_providers]

\* OmenRouter::select_auto_provider
select_auto_provider(intent, healthy) ==
    LET found ==
            (IF intent \in PreferLocalFor
             THEN HealthyOf(<<"ollama">>, healthy) ELSE << >>)
            \o HealthyOf(<<"openai", "anthropic", "google", "azure", "xai">>,
                         healthy)
    IN  IF found = << >>
        THEN [ok |-> FALSE, error |-> "ProviderUnavailable",
              provider |-> NoProvider]
        ELSE [ok |-> TRUE, error |-> "none", provider |-> Head(found)]

\* OmenRouter::select_provider
select_provider(model, intent, order, healthy) ==
    IF model = "auto" THEN select_auto_provider(intent, healthy)
    ELSE LET found == select_candidates_by_model(model, order, healthy)
         IN  IF found = << >>
             THEN [ok |-> FALSE, error |-> "ModelNotFound",
                   provider |-> NoProvider]
             ELSE [ok |-> TRUE, error |-> "none", provider |-> Head(found)]

\* impl From<&OmenConfig> for MultiplexStrategy
MultiplexStrategyFrom(omen) ==
    CASE omen.strategy = "single" ->
           [kind |-> "single", k |-> 1, delay_ms |-> 0]
      [] omen.strategy = "race" ->
           [kind |-> "race", k |-> KOr2(omen.k), delay_ms |-> 0]
      [] omen.strategy = "speculate_k" ->
           [kind |-> "speculate_k", k |-> KOr2(omen.k), delay_ms |-> 150]
      [] omen.strategy = "parallel_merge" ->
           [kind |-> "parallel_merge", k |-> KOr2(omen.k), delay_ms |-> 0]
      [] OTHER -> [kind |-> "race", k |-> 2, delay_ms |-> 0]

\* an update that folds a price of zero into the average when no token
\* was used
update_metrics_always_prices(router, provider_id, latency_ms, success, cost_usd, tokens_used) ==
    LET old == MetricsOf(router, provider_id)
        cost_per_1k == IF tokens_used > 0
                       THEN (cost_usd \div tokens_used) * 1000
                            + ((cost_usd % tokens_used) * 1000)
                                 \div tokens_used
                       ELSE 0
        new == [old EXCEPT
                  !.avg_latency_ms = (@ * 9 + latency_ms) \div 10,
                  !.success_rate = IF success THEN (@ * 9) \div 10 + 100
                                   ELSE (@ * 9) \div 10,
                  !.cost_per_1k_tokens = (@ * 9 + cost_per_1k) \div 10,
                  !.samples = @ + 1]
    IN  [router EXCEPT !.metrics = Put(@, provider_id, new)]

\* AdvancedRouter::update_metrics_from_response, alpha = 0.1
update_metrics_from_response(router, provider_id, latency_ms, success, cost_usd, tokens_used) ==
    LET old == MetricsOf(router, provider_id)
        cost_per_1k == (cost_usd \div tokens_used) * 1000
                       + ((cost_usd % tokens_used) * 1000) \div tokens_used
        new == [old EXCEPT
                  !.avg_latency_ms = (@ * 9 + latency_ms) \div 10,
                  !.success_rate = IF success THEN (@ * 9) \div 10 + 100
                                   ELSE (@ * 9) \div 10,
                  !.cost_per_1k_tokens =
                      IF tokens_used > 0 THEN (@ * 9 + cost_per_1k) \div 10
                      ELSE @,
                  !.samples = @ + 1]
    IN  [router EXCEPT !.metrics = Put(@, provider_id, new)]

\* what routing a request leaves alone, but for the calls in progress
routeVars == <<strategy, providers, budget_cap, muxResult, drvPc, produced,
               chan, coordVars, outputOpen, deadlineElapsed, cloudSpawned,
               hasher, user_billing, usage_history, buckets, utc, cache>>

otherVars == <<routeVars, runs>>

\* OmenRouter::update_provider_metrics, under the lock of the router
UpdateProviderMetrics(provider_id, latency_ms, success, cost_usd, tokens_used) ==
    /\ advanced_router' =
          update_metrics_from_response(advanced_router, provider_id,
                                       latency_ms, success, cost_usd,
                                       tokens_used)
    /\ advanced_router' # advanced_router
    /\ UNCHANGED <<otherVars, decision>>

\* OmenRouter::set_user_budget
SetUserBudget(user_id, budget_usd) ==
    /\ advanced_router' =
          [advanced_router EXCEPT
             !.cost_budgets = Put(@, user_id, budget_usd)]
    /\ advanced_router' # advanced_router
    /\ UNCHANGED <<otherVars, decision>>

----------------------------------------------------------------------------
(* The billing ledger: BillingManager::check_request_allowed and            *)
(* BillingManager::record_usage, which updates the tenant's record under    *)
(* the lock of user_billing and then pushes the TokenUsage under the lock   *)
(* of usage_history.  A history entry also notes the tier under which the   *)
(* ledger step charged it ("none": there was no record to charge).          *)

\* tokens and provider cost of a completion: nothing, or what reaches the
\* free tier's daily token limit and daily budget
Usages == { [tokens |-> 0, cost |-> 0],
            [tokens |-> BillingTiers["free"].tokens_per_day,
             cost |-> BillingTiers["free"].budget_per_day_usd] }

HistoryOf(u) == IF u \in DOMAIN usage_history THEN usage_history[u] ELSE <<>>

\* BillingManager::check_request_allowed
CheckRequestAllowed(r, u) ==
    /\ runs[r].pc \in {"idle", "returned"}
    /\ user_billing' = get_or_create_user_billing(user_billing, u)
    /\ runs' = [runs EXCEPT ![r] =
                  Returned(IF can_make_request(user_billing'[u])
                           THEN "Allowed" ELSE "Denied")]
    /\ UNCHANGED <<muxVars, cache, usage_history, buckets, utc>>

\* BillingManager::record_usage is called
RecordUsageCall(r, u, usage) ==
    /\ runs[r].pc \in {"idle", "returned"}
    /\ Len(HistoryOf(u)) < MaxRecords
    /\ runs' = [runs EXCEPT ![r] =
                  [IdleRun EXCEPT !.pc = "ledger", !.op = "record_usage",
                                  !.user_id = u,
                                  !.total_tokens = usage.tokens,
                                  !.provider_cost_usd = usage.cost]]
    /\ UNCHANGED <<muxVars, cache, user_billing, usage_history, buckets, utc>>

\* record_usage under user_billing.write(): the record, if there is one
RecordUsageLedger(r) ==
    /\ runs[r].pc = "ledger"
    /\ LET u == runs[r].user_id
       IN IF u \in DOMAIN user_billing
          THEN /\ user_billing' =
                    [user_billing EXCEPT ![u] =
                       record_usage(reset_monthly(@), runs[r].total_tokens,
                                    runs[r].provider_cost_usd)]
               /\ runs' = [runs EXCEPT ![r].pc = "history",
                                       ![r].tier = user_billing[u].tier]
          ELSE /\ user_billing' = user_billing
               /\ runs' = [runs EXCEPT ![r].pc = "history",
                                       ![r].tier = "none"]
    /\ UNCHANGED <<muxVars, cache, usage_history, buckets, utc>>

\* start_time.elapsed() of a provider call, in ms
MeasuredLatency == 100

\* the provider select_provider hands to chat_completion when every
\* registered provider is healthy
ServingProvider(run) ==
    select_provider(run.request.model, "general", InsertionOrder,
                    RegistryIds).provider

\* record_usage under usage_history.write(): push the TokenUsage; inside
\* chat_completion it is followed by update_provider_metrics with
\* success = true (router.rs:132)
RecordUsageHistory(r) ==
    /\ runs[r].pc = "history"
    /\ LET u == runs[r].user_id
       IN usage_history' =
            Put(usage_history, u,
                Append(HistoryOf(u),
                       [total_tokens |-> runs[r].total_tokens,
                        provider_cost_usd |-> runs[r].provider_cost_usd,
                        tier |-> runs[r].tier]))
    /\ advanced_router' =
          IF runs[r].op = "record_usage" THEN advanced_router
          ELSE update_metrics_from_response(
                   advanced_router, ServingProvider(runs[r]), MeasuredLatency,
                   TRUE, 100 * runs[r].provider_cost_usd,
                   runs[r].total_tokens)
    /\ runs' = [runs EXCEPT ![r] =
                  IF @.op = "record_usage" THEN Returned("Ok")
                  ELSE IF cache.enabled THEN [@ EXCEPT !.pc = "store"]
                  ELSE Served(@, "provider")]
    /\ UNCHANGED <<strategy, providers, budget_cap, muxResult, drvPc, produced,
                   chan, coordVars, outputOpen, deadlineElapsed, cloudSpawned,
                   hasher, decision, cache, user_billing, buckets, utc>>

\* midnight UTC within a month
DayRollover ==
    /\ utc.day < MaxDays
    /\ utc' = [utc EXCEPT !.day = @ + 1]
    /\ UNCHANGED <<muxVars, cache, user_billing, usage_history, buckets, runs>>

\* midnight UTC at the end of a month
MonthRollover ==
    /\ utc.day < MaxDays
    /\ utc' = [day |-> utc.day + 1, month |-> utc.month + 1]
    /\ UNCHANGED <<muxVars, cache, user_billing, usage_history, buckets, runs>>

\* the public operations of BillingManager, called in any order for one
\* tenant by two tasks
NextBilling ==
    \/ \E r \in RunIds : CheckRequestAllowed(r, "alice")
    \/ \E r \in RunIds, usage \in Usages : RecordUsageCall(r, "alice", usage)
    \/ \E r \in RunIds : RecordUsageLedger(r)
    \/ \E r \in RunIds : RecordUsageHistory(r)
    \/ \E t \in TierNames : UpdateUserTier("alice", t)
    \/ DayRollover
    \/ MonthRollover

SpecBilling == InitRouter /\ [][NextBilling]_vars

----------------------------------------------------------------------------
(* The non-streaming pipeline: OmenRouter::chat_completion for a request    *)
(* that carries a tenant id.  Each await of the function is one step: the   *)
(* cache lookup, the hit-count bump, the billing pre-check, the two steps  *)
(* of check_rate_limit, the provider call, the two steps of record_usage    *)
(* and the cache write.  The tokens of the ledger entry are input plus      *)
(* output tokens, chosen with the provider's answer.                        *)

\* a request: the fields the cache key is built from; temperature in tenths
Greeting == [model |-> "m", temperature |-> "none", messages |-> <<"hi">>]

Farewell == [model |-> "m", temperature |-> "none", messages |-> <<"bye">>]

Requests == {Greeting, Farewell}

\* ChatCompletionResponse bodies a provider can answer with
Responses == {"a1", "a2"}

\* request.temperature.unwrap_or(0.7)
TemperatureOr(temperature) == IF temperature = "none" THEN 7 ELSE temperature

\* RedisCache::generate_response_cache_key: user_id, then the hash of
\* user_id, model, temperature and the messages
generate_response_cache_key(user_id, request) ==
    <<"resp", user_id,
      <<user_id, request.model, TemperatureOr(request.temperature),
        request.messages>> >>

\* cache_response: the CachedResponse it builds
NewCachedResponse(response, cost_usd) ==
    [response |-> response, cost_usd |-> cost_usd, cache_hit_count |-> 0]

\* a serialisation that is not the JSON of a CachedResponse
to_string_plain(cached) == <<"text", cached>>

\* serde_json::to_string of a CachedResponse
to_string(cached) == <<"json", cached>>

\* serde_json::from_str losing the body of the response
from_str_default(data) ==
    IF data[1] = "json"
    THEN [ok |-> TRUE, value |-> [data[2] EXCEPT !.response = "none"]]
    ELSE [ok |-> FALSE, value |-> NewCachedResponse("none", 0)]

\* serde_json::from_str::<CachedResponse>: Ok(value), or Err for a string
\* that is no CachedResponse
from_str(data) ==
    IF data[1] = "json"
    THEN [ok |-> TRUE, value |-> data[2]]
    ELSE [ok |-> FALSE, value |-> NewCachedResponse("none", 0)]

\* the hit counter kept under hits:{key}
HitsOf(key) == IF key \in DOMAIN cache.hits THEN cache.hits[key] ELSE 0

\* the requests counter of the tenant's bucket
RequestsOf(u) == IF u \in DOMAIN buckets THEN buckets[u].requests ELSE 0

KeyOf(run) == generate_response_cache_key(run.user_id, run.request)

\* chat_completion is called
ChatCompletionCall(r, u, q, est) ==
    /\ runs[r].pc \in {"idle", "returned"}
    /\ runs' = [runs EXCEPT ![r] =
                  [IdleRun EXCEPT
                     !.pc = IF cache.enabled THEN "cache_get" ELSE "precheck",
                     !.op = "chat_completion", !.user_id = u,
                     !.request = q, !.estimated_tokens = est]]
    /\ UNCHANGED <<muxVars, cache, user_billing, usage_history, buckets, utc>>

\* get_cached_response: GET response:{key}; an entry that deserialises is a
\* hit, anything else falls through to admission
CacheLookup(r) ==
    /\ runs[r].pc = "cache_get"
    /\ LET key == KeyOf(runs[r])
           hit == /\ key \in DOMAIN cache.response
                  /\ from_str(cache.response[key]).ok
       IN runs' = [runs EXCEPT ![r] =
                     IF hit
                     THEN [@ EXCEPT !.pc = "hit",
                             !.response =
                                from_str(cache.response[key]).value.response]
                     ELSE [@ EXCEPT !.pc = "precheck"]]
    /\ UNCHANGED <<muxVars, cache, user_billing, usage_history, buckets, utc>>

\* increment_cache_hit: INCR hits:{key}, then return Ok(cached.response)
CacheHitCount(r) ==
    /\ runs[r].pc = "hit"
    /\ cache' = [cache EXCEPT
                   !.hits = Put(@, KeyOf(runs[r]), HitsOf(KeyOf(runs[r])) + 1)]
    /\ runs' = [runs EXCEPT ![r] = Served(@, "cache")]
    /\ UNCHANGED <<muxVars, user_billing, usage_history, buckets, utc>>

\* check_request_allowed inside chat_completion: a denial ends the request
PreCheck(r) ==
    /\ runs[r].pc = "precheck"
    /\ user_billing' = get_or_create_user_billing(user_billing, runs[r].user_id)
    /\ runs' = [runs EXCEPT ![r] =
                  IF can_make_request(user_billing'[runs[r].user_id])
                  THEN [@ EXCEPT !.pc = "ratelimit"]
                  ELSE Failed(@, "RateLimitExceeded")]
    /\ UNCHANGED <<muxVars, cache, usage_history, buckets, utc>>

\* check_rate_limit inside chat_completion: the tier lookup
ChatRateLimit(r) ==
    /\ runs[r].pc = "ratelimit"
    /\ user_billing' = get_or_create_user_billing(user_billing, runs[r].user_id)
    /\ runs' = [runs EXCEPT ![r].pc = "bucket",
                            ![r].tier = user_billing'[runs[r].user_id].tier]
    /\ UNCHANGED <<muxVars, cache, usage_history, buckets, utc>>

\* select_provider or provider.chat_completion returns an error
ProviderFails(r) ==
    /\ runs[r].pc = "provider"
    /\ runs' = [runs EXCEPT ![r] = Failed(@, "ProviderError")]
    /\ UNCHANGED <<muxVars, cache, user_billing, usage_history, buckets, utc>>

\* provider.chat_completion returns a response
ProviderResponds(r, usage, response) ==
    /\ runs[r].pc = "provider"
    /\ runs' = [runs EXCEPT ![r].pc = "ledger",
                            ![r].response = response,
                            ![r].total_tokens = usage.tokens,
                            ![r].provider_cost_usd = usage.cost]
    /\ UNCHANGED <<muxVars, cache, user_billing, usage_history, buckets, utc>>

\* cache_response: SET response:{key} with the TTL, then return Ok(response)
CacheStore(r) ==
    /\ runs[r].pc = "store"
    /\ cache' = [cache EXCEPT
                   !.response =
                      Put(@, KeyOf(runs[r]),
                          to_string(NewCachedResponse(
                                       runs[r].response,
                                       runs[r].provider_cost_usd)))]
    /\ runs' = [runs EXCEPT ![r] = Served(@, "provider")]
    /\ UNCHANGED <<muxVars, user_billing, usage_history, buckets, utc>>

\* the steps of admission and of the ledger inside chat_completion
AdmissionStep(r) ==
    \/ PreCheck(r)
    \/ ChatRateLimit(r)
    \/ CheckRateLimitBucket(r)
    \/ RecordUsageLedger(r)
    \/ RecordUsageHistory(r)

\* tokens and provider cost of a completion: nothing, or what reaches the
\* pro tier's daily token limit and daily budget
HeavyUsages == { [tokens |-> 0, cost |-> 0],
                 [tokens |-> BillingTiers["pro"].tokens_per_day,
                  cost |-> BillingTiers["pro"].budget_per_day_usd] }

\* one tenant sending small and oversized requests through two tasks of a
\* router without cache, while its tier is changed
NextAdmission ==
    \/ \E r \in RunIds, est \in {0, HugeEstimate} :
          /\ Len(HistoryOf("alice")) < MaxRecords
          /\ RequestsOf("alice") < MaxRecords
          /\ ChatCompletionCall(r, "alice", Greeting, est)
    \/ \E r \in RunIds : AdmissionStep(r)
    \/ \E r \in RunIds : ProviderFails(r)
    \/ \E r \in RunIds, usage \in HeavyUsages :
          ProviderResponds(r, usage, "a1")
    \/ \E t \in TierNames : UpdateUserTier("alice", t)

SpecAdmission == InitRouter /\ [][NextAdmission]_vars

\* a free-tier tenant sending one small request after the other through
\* two tasks of a router without cache; every provider call succeeds, and
\* time passes while the tenant's window is exhausted
NextDaily ==
    \/ \E r \in RunIds : ChatCompletionCall(r, "alice", Greeting, 0)
    \/ \E r \in RunIds : AdmissionStep(r)
    \/ \E r \in RunIds : ProviderResponds(r, [tokens |-> 0, cost |-> 0], "a1")
    \/ /\ "alice" \in DOMAIN buckets
       /\ ~can_consume(buckets["alice"], RateLimitConfigs["free"], 0)
       /\ Tick

SpecDaily == InitRouter /\ [][NextDaily]_vars

\* a router with a working Redis and nothing cached
InitCache ==
    MuxInit({"single"}, { <<>> }, {DefaultBudget}) /\ RouterStart(EmptyCache)

\* one tenant sending two kinds of requests through two tasks of a router
\* with cache, within the TTL of what gets cached: a request is sent while
\* its key has fewer than MaxHits hits, a provider answers while the tenant
\* has fewer than MaxRecords history entries
NextCache ==
    \/ \E r \in RunIds, q \in Requests :
          /\ HitsOf(generate_response_cache_key("alice", q)) < MaxHits
          /\ ChatCompletionCall(r, "alice", q, 0)
    \/ \E r \in RunIds : CacheLookup(r)
    \/ \E r \in RunIds : CacheHitCount(r)
    \/ \E r \in RunIds : AdmissionStep(r)
    \/ \E r \in RunIds, response \in Responses :
          /\ Len(HistoryOf("alice")) < MaxRecords
          /\ ProviderResponds(r, [tokens |-> 0, cost |-> 0], response)
    \/ \E r \in RunIds : CacheStore(r)

SpecCache == InitCache /\ [][NextCache]_vars

\* get_cached_response returns Err (no connection, GET failed): the
\* if-let does not match and the call goes on to admission
CacheLookupFails(r) ==
    /\ runs[r].pc = "cache_get"
    /\ runs' = [runs EXCEPT ![r].pc = "precheck"]
    /\ UNCHANGED <<muxVars, cache, user_billing, usage_history, buckets, utc>>

\* increment_cache_hit returns Err: the result is dropped and the cached
\* response returned
CacheHitCountFails(r) ==
    /\ runs[r].pc = "hit"
    /\ runs' = [runs EXCEPT ![r] = Served(@, "cache")]
    /\ UNCHANGED <<muxVars, cache, user_billing, usage_history, buckets, utc>>

\* a failed cache write that fails the request
CacheStoreFailsLoudly(r) ==
    /\ runs[r].pc = "store"
    /\ runs' = [runs EXCEPT ![r] = Failed(@, "CacheError")]
    /\ UNCHANGED <<muxVars, cache, user_billing, usage_history, buckets, utc>>

\* cache_response returns Err: it is logged and the response returned
CacheStoreFails(r) ==
    /\ runs[r].pc = "store"
    /\ runs' = [runs EXCEPT ![r] = Served(@, "provider")]
    /\ UNCHANGED <<muxVars, cache, user_billing, usage_history, buckets, utc>>

\* the traffic of NextCache over a Redis whose operations can fail, with
\* completions that can take the tenant to its daily limits
NextCacheFaults ==
    \/ \E r \in RunIds, q \in Requests :
          /\ HitsOf(generate_response_cache_key("alice", q)) < MaxHits
          /\ ChatCompletionCall(r, "alice", q, 0)
    \/ \E r \in RunIds : CacheLookup(r)
    \/ \E r \in RunIds : CacheLookupFails(r)
    \/ \E r \in RunIds : CacheHitCount(r)
    \/ \E r \in RunIds : CacheHitCountFails(r)
    \/ \E r \in RunIds : AdmissionStep(r)
    \/ \E r \in RunIds, usage \in Usages :
          /\ Len(HistoryOf("alice")) < MaxRecords
          /\ ProviderResponds(r, usage, "a1")
    \/ \E r \in RunIds : CacheStore(r)
    \/ \E r \in RunIds : CacheStoreFails(r)

SpecCacheFaults == InitCache /\ [][NextCacheFaults]_vars

----------------------------------------------------------------------------
(* The cache key as a string: generate_response_cache_key formats          *)
(* "resp:{user_id}:{hash as lower-case hex}".  A string is a sequence of    *)
(* characters here.  DefaultHasher::new() is one fixed function, which the  *)
(* model leaves open: hasher is any function from what is hashed to hex     *)
(* strings, chosen once, so that digests can collide.                       *)

\* tenant ids, one of them holding the separator of the key format
UserIds == { <<"a">>, <<"a", "b">>, <<"a", ":", "b">> }

\* hex strings a 64-bit hash can be formatted to
Digests == { <<"b">>, <<"b", "b">> }

\* what generate_response_cache_key feeds into the hasher
HashInput(user_id, request) ==
    <<user_id, request.model, TemperatureOr(request.temperature),
      request.messages>>

HashInputs == { HashInput(u, q) : u \in UserIds, q \in Requests }

\* the key format without the separator between tenant id and hash
format_key_unseparated(user_id, digest) ==
    <<"r", "e", "s", "p", ":">> \o user_id \o digest

\* format!("resp:{}:{:x}", user_id, hasher.finish())
format_key(user_id, digest) ==
    <<"r", "e", "s", "p", ":">> \o user_id \o <<":">> \o digest

\* RedisCache::generate_response_cache_key, as the string it returns
response_cache_key(user_id, request) ==
    format_key(user_id, hasher[HashInput(user_id, request)])

\* the provider's answer to a tenant's request, marked with the tenant
AnswerFor(user_id) == [tenant |-> user_id, body |-> "a1"]

\* cache_response for a served request of this tenant
CacheUnderKey(user_id, request) ==
    /\ cache' = [cache EXCEPT
                   !.response =
                      Put(@, response_cache_key(user_id, request),
                          to_string(NewCachedResponse(AnswerFor(user_id), 0)))]
    /\ cache' # cache
    /\ UNCHANGED <<muxVars, user_billing, usage_history, buckets, utc, runs>>

\* TTL expiry of an entry
KeyExpires(key) ==
    /\ key \in DOMAIN cache.response
    /\ cache' = [cache EXCEPT
                   !.response = [k \in DOMAIN @ \ {key} |-> @[k]]]
    /\ UNCHANGED <<muxVars, user_billing, usage_history, buckets, utc, runs>>

\* a router with cache whose hasher is any function into hex strings
InitKeys ==
    /\ MuxInit({"single"}, { <<>> }, {DefaultBudget})
    /\ RouterWith(EmptyCache, [HashInputs -> Digests])

NextKeys ==
    \/ \E u \in UserIds, q \in Requests : CacheUnderKey(u, q)
    \/ \E key \in DOMAIN cache.response : KeyExpires(key)

SpecKeys == InitKeys /\ [][NextKeys]_vars

----------------------------------------------------------------------------
(* The streaming entry: OmenRouter::stream_chat_completion selects the      *)
(* candidates (with a routing directive) or one provider (without) and      *)
(* opens the provider streams, through the multiplexer or directly.         *)

\* stream_chat_completion is called
StreamChatCompletionCall(r, u, q) ==
    /\ runs[r].pc \in {"idle", "returned"}
    /\ runs' = [runs EXCEPT ![r] =
                  [IdleRun EXCEPT !.pc = "stream_select",
                                  !.op = "stream_chat_completion",
                                  !.user_id = u, !.request = q]]
    /\ UNCHANGED <<muxVars, cache, user_billing, usage_history, buckets, utc>>

\* request.omen is None
NoOmen == [some |-> FALSE, strategy |-> "absent", k |-> NoneK,
           providers_some |-> FALSE, providers |-> << >>]

\* a routing directive: request.omen is Some
Omen(name, k, list) ==
    [some |-> TRUE, strategy |-> name, k |-> k,
     providers_some |-> list # << >>, providers |-> list]

\* directives whose strategy is absent, known or unknown, with and
\* without k
StrategyConfigs ==
    { Omen(s, k, << >>) :
        s \in {"absent", "single", "race", "speculate_k", "parallel_merge",
               "fastest"},
        k \in {NoneK, 3} }

\* directives with an allowlist: two providers, one provider twice, an
\* unregistered provider
AllowlistConfigs ==
    { Omen("race", k, l) :
        k \in {NoneK, 1},
        l \in { <<"openai", "ollama">>, <<"openai", "openai">>,
                <<"ghost", "anthropic">> } }

\* router.rs:168-192: with a directive the strategy is resolved and the
\* candidates are selected for the multiplexer, without one a single
\* provider is selected and streams directly
StreamRouting(run, omen, intent, order, healthy) ==
    LET base == [NoDecision EXCEPT
                   !.routed = TRUE, !.user_id = run.user_id,
                   !.has_omen = omen.some, !.omen_strategy = omen.strategy,
                   !.omen_k = omen.k, !.intent = intent]
        cands == select_candidates(advanced_router, run.request.model,
                                   intent, omen, order, healthy)
        one == select_provider(run.request.model, intent, order, healthy)
    IN  IF omen.some
        THEN [base EXCEPT
                !.strategy = MultiplexStrategyFrom(omen),
                !.candidates = cands.candidates,
                !.result = IF cands.ok THEN "Ok" ELSE cands.error,
                !.selected = cands.selected,
                !.selected_providers = cands.selected_providers,
                !.multiplexed = cands.ok]
        ELSE [base EXCEPT
                !.result = IF one.ok THEN "Ok" ELSE one.error,
                !.selected_providers =
                    IF one.ok THEN <<one.provider>> ELSE << >>]

\* select_candidates or select_provider returns an error
StreamSelectFails(r, omen, intent, order, healthy) ==
    /\ runs[r].pc = "stream_select"
    /\ decision' = StreamRouting(runs[r], omen, intent, order, healthy)
    /\ decision'.result # "Ok"
    /\ runs' = [runs EXCEPT ![r] = Failed(@, decision'.result)]
    /\ UNCHANGED <<routeVars, advanced_router>>

\* the selection succeeds and stream_chat_completion of the selected
\* provider, or multiplex_stream over the candidates, is invoked
StreamDispatch(r, omen, intent, order, healthy) ==
    /\ runs[r].pc = "stream_select"
    /\ decision' = StreamRouting(runs[r], omen, intent, order, healthy)
    /\ decision'.result = "Ok"
    /\ runs' = [runs EXCEPT ![r].pc = "streaming"]
    /\ UNCHANGED <<routeVars, advanced_router>>

\* the caller has consumed the stream
StreamEnds(r) ==
    /\ runs[r].pc = "streaming"
    /\ runs' = [runs EXCEPT ![r] =
                  [Failed(@, "stream") EXCEPT !.served_by = "provider"]]
    /\ UNCHANGED <<muxVars, cache, user_billing, usage_history, buckets, utc>>

\* one free-tier tenant sending non-streaming and streaming requests
\* through two tasks of a router without cache
NextEntry ==
    \/ \E r \in RunIds :
          /\ Len(HistoryOf("alice")) < MaxRecords
          /\ RequestsOf("alice") < MaxRecords
          /\ ChatCompletionCall(r, "alice", Greeting, 0)
    \/ \E r \in RunIds : AdmissionStep(r)
    \/ \E r \in RunIds : ProviderFails(r)
    \/ \E r \in RunIds, usage \in Usages : ProviderResponds(r, usage, "a1")
    \/ \E r \in RunIds : StreamChatCompletionCall(r, "alice", Greeting)
    \/ \E r \in RunIds, healthy \in {{}, RegistryIds} :
          StreamSelectFails(r, NoOmen, "general", InsertionOrder,
                            healthy)
    \/ \E r \in RunIds, healthy \in {{}, RegistryIds} :
          StreamDispatch(r, NoOmen, "general", InsertionOrder,
                         healthy)
    \/ \E r \in RunIds : StreamEnds(r)

SpecEntry == InitRouter /\ [][NextEntry]_vars

\* the requests routed: every strategy with all providers healthy, the
\* allowlists and the registry orders with some providers unhealthy
Routings ==
    { [omen |-> o, intent |-> "general", order |-> InsertionOrder,
       healthy |-> RegistryIds] : o \in StrategyConfigs \cup {NoOmen} }
    \cup
    { [omen |-> o, intent |-> "code", order |-> InsertionOrder,
       healthy |-> h] :
        o \in AllowlistConfigs, h \in {{}, {"openai"}, RegistryIds} }
    \cup
    { [omen |-> o, intent |-> "general", order |-> order, healthy |-> h] :
        o \in {NoOmen, Omen("race", NoneK, << >>)},
        order \in RegistryOrders,
        h \in {{}, {"openai", "anthropic"}, RegistryIds} }

\* how often a provider's metrics have been updated
SamplesOf(provider_id) == MetricsOf(advanced_router, provider_id).samples

\* streaming requests of one tenant through one task, with every
\* directive, while responses update the metrics of two providers and the
\* tenant's budget is set
NextSelect ==
    \/ StreamChatCompletionCall(1, "alice", Greeting)
    \/ \E g \in Routings :
          \/ StreamSelectFails(1, g.omen, g.intent, g.order, g.healthy)
          \/ StreamDispatch(1, g.omen, g.intent, g.order, g.healthy)
    \/ StreamEnds(1)
    \/ \E p \in {"ollama", "openai"} :
          /\ SamplesOf(p) < MaxSamples
          /\ UpdateProviderMetrics(p, 100, TRUE, 1, 1000)
    \/ \E budget_usd \in {-1, 100} : SetUserBudget("alice", budget_usd)

SpecSelect == InitRouter /\ [][NextSelect]_vars

\* the responses folded into the metrics: answered or failed, with a price
\* per token or without any token counted
MetricInputs ==
    { [latency_ms |-> 100, success |-> ok, cost_usd |-> c[1],
       tokens_used |-> c[2]] :
        ok \in BOOLEAN, c \in { <<1, 1000>>, <<5, 0>> } }

\* the providers whose responses are folded in
MetricProviders == {"ollama", "openai"}

\* the router's metrics under updates and budget settings only
NextMetrics ==
    \/ \E p \in MetricProviders, in \in MetricInputs :
          /\ SamplesOf(p) < MaxSamples
          /\ UpdateProviderMetrics(p, in.latency_ms, in.success,
                                   in.cost_usd, in.tokens_used)
    \/ \E budget_usd \in {-1, 100} : SetUserBudget("alice", budget_usd)

SpecMetrics == InitRouter /\ [][NextMetrics]_vars

TypeOK ==
    /\ strategy \in AllStrategies
    /\ providers \in CandidateLists
    /\ muxResult \in {"Ok", "ProviderUnavailable", "ProviderError"}
    /\ drvPc \in [ProviderIds ->
                    {"unspawned", "opening", "streaming", "direct",
                     "done", "error", "cancelled"}]
    /\ \A p \in ProviderIds : Len(produced[p]) <= MaxChunks
    /\ coordPc \in {"running", "finished", "absent"}
    /\ winner \in ProviderIds \cup {NoProvider}
    /\ current_provider \in ProviderIds \cup {NoProvider}

----------------------------------------------------------------------------
(* Properties *)

\* Token events of provider p that are still in the channel
PendingTokens(p) ==
    Cardinality({ i \in DOMAIN chan :
                    chan[i].type = "Token" /\ chan[i].provider_id = p })

\* chunks of p the running coordinator has taken from the channel
ReceivedTokens(p) ==
    SubSeq(produced[p], 1, Len(produced[p]) - PendingTokens(p))

Useful(c) == is_useful_token(c, min_useful_tokens)

HasUseful(s) == \E i \in DOMAIN s : Useful(s[i])

\* position of the first useful chunk of s
FirstUseful(s) ==
    CHOOSE i \in DOMAIN s : Useful(s[i]) /\ \A j \in 1..(i - 1) : ~Useful(s[j])

OutputChunks == [i \in DOMAIN output |-> output[i].chunk]

Last(s) == s[Len(s)]

\* the provider the coordinator of this run is committed to
Committed ==
    IF Mode(strategy, providers) = "race" THEN winner ELSE current_provider

\* this step is the coordinator taking the head of the channel
CoordReceives ==
    /\ coordPc = "running"
    /\ chan # <<>>
    /\ \/ chan' = Tail(chan) /\ coordPc' = "running"
       \/ coordExit' \in {"done", "error", "budget"}

\* C1 (as claimed): in a Race run the election cancels only the other
\* drivers: as long as the run was not ended by the deadline or the budget,
\* the driver of the Winner never stops on the cancellation signal.
C1_WinnerDriverNotCancelled ==
    \A p \in ProviderIds :
        (winner = p /\ coordExit \notin {"timeout", "budget"})
            => drvPc[p] # "cancelled"

\* C2: the winner is set at most once and never changes afterwards, and a
\* useful chunk taken from the channel while no winner is set commits the
\* provider that sent it, so that a run in which a useful chunk is received
\* has exactly one committed provider.
C2_WinnerSetOnce ==
    [][ /\ winner # NoProvider => winner' = winner
        /\ ( /\ CoordReceives
             /\ Head(chan).type = "Token"
             /\ Useful(Head(chan).chunk) )
           => /\ winner' \in Drivers
              /\ winner = NoProvider => winner' = Head(chan).provider_id
      ]_vars

\* a winner is set and a useful chunk of another provider was received later
C2_Witness ==
    /\ coordPc = "running"
    /\ winner # NoProvider
    /\ \E p \in ProviderIds \ {winner} : HasUseful(ReceivedTokens(p))

\* C3: every item placed on the output comes from the provider that is the
\* Winner (Race) or the Current provider (SpeculateK) in the state the item
\* is forwarded in, and in a Race run every item of the output comes from
\* the Winner.
C3_OutputFromCommitted ==
    [][ /\ Len(output') > Len(output)
           => Last(output').provider_id = Committed'
        /\ Mode(strategy, providers) = "race"
           => \A i \in DOMAIN output' : output'[i].provider_id = winner'
      ]_vars

\* a Race run forwarded the Winner's chunk while a chunk of the other
\* provider was received and kept off the output
C3_Witness ==
    /\ Mode(strategy, providers) = "race"
    /\ coordPc = "running"
    /\ output # <<>>
    /\ \E p \in ProviderIds \ {winner} : ReceivedTokens(p) # <<>>

\* the coordinator has taken all three chunks of the scenario, in the order
\* they were emitted, and the caller still listens
ScenarioPlayed ==
    /\ coordPc = "running"
    /\ outputOpen
    /\ Emitted = Len(ScenarioEmissions)
    /\ \A p \in ProviderIds : PendingTokens(p) = 0

C5_OutputInProductionOrder ==
    /\ \A i \in DOMAIN output :
          output[i].kind = "Ok"
             => /\ output[i].idx \in 1..Len(produced[output[i].provider_id])
                /\ produced[output[i].provider_id][output[i].idx]
                     = output[i].chunk
    /\ \A i, j \in DOMAIN output :
          ( /\ i < j
            /\ output[i].kind = "Ok"
            /\ output[j].kind = "Ok"
            /\ output[i].provider_id = output[j].provider_id )
             => output[i].idx < output[j].idx
    /\ Mode(strategy, providers) = "race"
          => \A i \in DOMAIN output : output[i].provider_id = winner

\* a Race run forwarded two chunks of the Winner
C5_Witness ==
    /\ Mode(strategy, providers) = "race"
    /\ Len(output) >= 2
    /\ output[1].kind = "Ok"
    /\ output[2].kind = "Ok"

\* a Race run ended with the Winner's Done and the caller still listens
RaceEndedWithDone ==
    /\ Mode(strategy, providers) = "race"
    /\ coordExit = "done"
    /\ outputOpen

\* C6 (as claimed): in a Race run that ends with the Winner's Done the
\* output is the full sequence of chunks the Winner produced.
C6_OutputIsAllWinnerChunks ==
    RaceEndedWithDone => OutputChunks = produced[winner]

\* C6 (amended): in a Race run that ends with the Winner's Done the output
\* is the sequence of chunks the Winner produced from the chunk that
\* elected it onwards; the chunks before it are not forwarded.
C6_OutputIsWinnerChunksFromElection ==
    RaceEndedWithDone
        => /\ HasUseful(produced[winner])
           /\ OutputChunks = SubSeq(produced[winner],
                                    FirstUseful(produced[winner]),
                                    Len(produced[winner]))

\* the Winner produced a chunk before the one that elected it
C6_Witness ==
    /\ RaceEndedWithDone
    /\ HasUseful(produced[winner])
    /\ FirstUseful(produced[winner]) > 1
    /\ output # <<>>

\* C7 (as claimed): a Race run that the deadline ends before any provider
\* is committed ends its output with a Timeout error item.
C7_TimeoutItem ==
    (coordExit = "timeout" /\ winner = NoProvider /\ outputOpen)
        => /\ output # <<>>
           /\ Last(output).kind = "Err"
           /\ Last(output).error = "Timeout"

\* C8 (as claimed): once max_latency has elapsed no chunk is forwarded.
C8_NoChunkAfterDeadline ==
    [][ deadlineElapsed => output' = output ]_vars

\* C9 (as claimed): a run whose accumulated cost exceeds a budget of zero
\* or more is cut off by the budget check.
C9_BudgetCutsOff ==
    (budget_cap >= 0 /\ total_cost > budget_cap) => coordExit = "budget"

\* C10: when an Error event of the committed provider ends the run, that
\* error is the last item of the output, and after the coordinator has
\* finished no item is forwarded and the committed provider does not change.
C10_WinnerErrorEndsOutput ==
    [][ /\ (coordExit' = "error" /\ outputOpen')
           => /\ output' # <<>>
              /\ Last(output').kind = "Err"
              /\ Last(output').provider_id = Committed'
              /\ Last(output').error \in {"open_failed", "stream_failed"}
              /\ drvPc'[Committed'] = "error"
        /\ coordPc = "finished"
           => /\ output' = output
              /\ Committed' = Committed
      ]_vars

\* the committed provider failed after a chunk of it was forwarded, while
\* the other driver is still streaming
C10_Witness ==
    /\ coordExit = "error"
    /\ outputOpen
    /\ Len(output) >= 2
    /\ \E p \in ProviderIds \ {Committed} : drvPc[p] = "streaming"

\* C11: in a SpeculateK run the current provider changes by upgrade at most
\* once: a change from one provider to another happens only while
\* can_upgrade holds and clears it, and once can_upgrade is cleared it stays
\* cleared and no chunk changes the current provider again.
C11_UpgradeAtMostOnce ==
    [][ /\ (current_provider # NoProvider
            /\ current_provider' # current_provider)
           => (can_upgrade /\ ~can_upgrade')
        /\ ~can_upgrade
           => (~can_upgrade' /\ current_provider' = current_provider)
      ]_vars

\* C11 witness: after the upgrade the coordinator has taken an
\* upgrade-worthy chunk of another provider, which it did not forward.
C11_Witness ==
    /\ Mode(strategy, providers) = "speculate"
    /\ ~can_upgrade
    /\ \E q \in ProviderIds \ {current_provider} :
         \E i \in DOMAIN ReceivedTokens(q) :
            /\ should_upgrade(ReceivedTokens(q)[i])
            /\ \A n \in DOMAIN output :
                  ~(output[n].provider_id = q /\ output[n].idx = i)

\* C12 (as claimed): with an empty candidate list multiplex_stream fails
\* with ProviderUnavailable under every strategy, and never hands out a
\* successful output sequence that ends without any item.
C12_EmptyCandidatesFail ==
    providers = <<>> => muxResult = "ProviderUnavailable"

\* burst_cap of a rate-limit config
BurstCap(config) == config.requests_per_minute + config.burst_allowance

\* this step is task r leaving the locked section of check_rate_limit
BucketStep(r) ==
    /\ runs[r].pc = "bucket"
    /\ runs[r].op = "check_rate_limit"
    /\ runs'[r].pc = "returned"

\* C13 (as claimed): in every reachable state the counters of every bucket
\* are within the limits of the tier its tenant has now: requests at most
\* requests_per_minute + burst_allowance, tokens at most tokens_per_minute.
C13_CountersWithinCurrentTier ==
    \A u \in DOMAIN buckets :
        /\ buckets[u].requests <= BurstCap(ConfigOf(user_billing[u].tier))
        /\ buckets[u].tokens
             <= ConfigOf(user_billing[u].tier).tokens_per_minute

\* C13 (amended): every admitted check_rate_limit call leaves the counters
\* of the caller's bucket within the limits of the tier that call looked up,
\* and a denied call leaves them at most where they were.
C13_AdmittedWithinTierLimits ==
    [][ \A r \in RunIds :
          BucketStep(r) =>
            LET u      == runs[r].user_id
                config == ConfigOf(runs[r].tier)
            IN /\ runs'[r].result = "Ok" =>
                    /\ buckets'[u].requests <= BurstCap(config)
                    /\ buckets'[u].tokens <= config.tokens_per_minute
               /\ (runs'[r].result # "Ok" /\ u \in DOMAIN buckets) =>
                    /\ buckets'[u].requests <= buckets[u].requests
                    /\ buckets'[u].tokens <= buckets[u].tokens
      ]_vars

\* C13 witness: an admitted call has filled the last request slot of a
\* free-tier bucket.
C13_Witness ==
    /\ runs[1].pc = "returned"
    /\ runs[1].result = "Ok"
    /\ "alice" \in DOMAIN buckets
    /\ user_billing["alice"].tier = "free"
    /\ buckets["alice"].requests = BurstCap(ConfigOf("free"))

\* C14: for a free-tier tenant and a request that fits the token limit, a
\* check made less than 60 seconds after the window start is admitted
\* exactly when fewer than 25 requests of the window were admitted before
\* it, and is otherwise denied with RateLimitExceeded leaving the bucket as
\* it was; a check made 60 seconds or more after the window start finds
\* both counters reset to zero and is admitted.
C14_FreeWindow ==
    [][ \A r \in RunIds :
          (BucketStep(r) /\ runs[r].tier = "free") =>
            LET u       == runs[r].user_id
                est     == runs[r].estimated_tokens
                old     == IF u \in DOMAIN buckets THEN buckets[u]
                           ELSE [requests |-> 0, tokens |-> 0, elapsed |-> 0]
                expired == old.elapsed >= 60
                before  == IF expired
                           THEN [requests |-> 0, tokens |-> 0, elapsed |-> 0]
                           ELSE old
            IN before.tokens + est <= 2000 =>
                 IF before.requests < 20 + 5
                 THEN /\ runs'[r].result = "Ok"
                      /\ buckets'[u] =
                           [requests |-> before.requests + 1,
                            tokens   |-> before.tokens + est,
                            elapsed  |-> before.elapsed]
                 ELSE /\ runs'[r].result = "RateLimitExceeded"
                      /\ buckets'[u] = before
      ]_vars

\* C14 witness: with 25 requests admitted in the window and no token
\* consumed, a further check of the free-tier tenant was denied.
C14_Witness ==
    /\ "alice" \in DOMAIN buckets
    /\ user_billing["alice"].tier = "free"
    /\ buckets["alice"].requests = 25
    /\ buckets["alice"].tokens = 0
    /\ buckets["alice"].elapsed < 60
    /\ \E r \in RunIds : /\ runs[r].pc = "returned"
                         /\ runs[r].result = "RateLimitExceeded"

\* the bucket of u as a check made now finds it
BucketBefore(u, config) ==
    LET old == IF u \in DOMAIN buckets THEN buckets[u]
               ELSE [requests |-> 0, tokens |-> 0, elapsed |-> 0]
    IN IF old.elapsed >= config.window_size
       THEN [requests |-> 0, tokens |-> 0, elapsed |-> 0]
       ELSE old

\* C15: concurrent check_rate_limit calls are atomic per tenant.  The step
\* in which a call tests and updates its bucket decides on the bucket as it
\* is at that step, whatever other calls are in progress: it is admitted
\* exactly when a request slot and the token headroom are left, it adds its
\* own request and tokens only then, and it leaves the bucket of every
\* other tenant as it was; so the counters never pass the limits, and two
\* concurrent calls are never both admitted into one remaining slot.
C15_AtomicPerTenant ==
    [][ \A r \in RunIds :
          BucketStep(r) =>
            LET u      == runs[r].user_id
                est    == runs[r].estimated_tokens
                config == ConfigOf(runs[r].tier)
                before == BucketBefore(u, config)
                fits   == /\ before.requests < BurstCap(config)
                          /\ before.tokens + est <= config.tokens_per_minute
            IN /\ (runs'[r].result = "Ok") <=> fits
               /\ buckets'[u].requests =
                     before.requests + (IF fits THEN 1 ELSE 0)
               /\ buckets'[u].tokens =
                     before.tokens + (IF fits THEN est ELSE 0)
               /\ buckets'[u].requests <= BurstCap(config)
               /\ buckets'[u].tokens <= config.tokens_per_minute
               /\ \A v \in Tenants \ {u} :
                     /\ v \in DOMAIN buckets' <=> v \in DOMAIN buckets
                     /\ v \in DOMAIN buckets => buckets'[v] = buckets[v]
      ]_vars

\* C15 witness: of two calls for the same tenant one has taken the last
\* request slot while the other is still waiting for the bucket lock, and
\* the other tenant has a bucket of its own.
C15_Witness ==
    /\ DOMAIN buckets = Tenants
    /\ buckets["alice"].requests = BurstCap(ConfigOf("free"))
    /\ buckets["bob"].requests = 1
    /\ runs[1].pc = "returned" /\ runs[1].result = "Ok"
    /\ runs[2].pc = "bucket" /\ runs[2].user_id = "alice"
ChargeOf(tier_name, provider_cost_usd) ==
    ActualCost(IF tier_name = "none" THEN "free" ELSE tier_name,
               provider_cost_usd)

RECURSIVE SumOfCharges(_)
SumOfCharges(history) ==
    IF history = <<>> THEN 0
    ELSE ChargeOf(Head(history).tier, Head(history).provider_cost_usd)
         + SumOfCharges(Tail(history))

\* charges of the calls of record_usage that have passed the ledger step and
\* not yet pushed their history entry
RECURSIVE PendingCharges(_, _)
PendingCharges(u, rs) ==
    IF rs = {} THEN 0
    ELSE LET r == CHOOSE x \in rs : TRUE
         IN (IF runs[r].pc = "history" /\ runs[r].user_id = u
             THEN ChargeOf(runs[r].tier, runs[r].provider_cost_usd) ELSE 0)
            + PendingCharges(u, rs \ {r})

\* C17 (as claimed): for every tenant total_spend_usd equals the sum of the
\* charges of all completions recorded through BillingManager::record_usage,
\* every completion with a history entry included, whatever resets and tier
\* changes happen.
C17_TotalIsSumOfRecorded ==
    \A u \in DOMAIN user_billing :
        user_billing[u].total_spend_usd
          = SumOfCharges(HistoryOf(u)) + PendingCharges(u, RunIds)

\* C18 (as claimed): the daily counters are reset on date rollover as
\* observed at read: once the UTC date is past the date of a tenant's last
\* reset, the pre-check admits the tenant, whatever the counters of the
\* day before were and without any other operation in between.
C18_AdmittedAfterRollover ==
    \A u \in DOMAIN user_billing :
        utc.day > user_billing[u].last_reset
            => can_make_request(user_billing[u])

\* C19: for a tenant whose tier sets a daily request limit, requests_today
\* never exceeds that limit, however concurrent chat_completion calls
\* interleave.
C19_DailyRequestLimit ==
    \A u \in DOMAIN user_billing :
        LET limit == BillingTiers[user_billing[u].tier].requests_per_day
        IN limit # Unlimited => user_billing[u].requests_today <= limit

\* task r has returned the response its provider gave, after storing it
StoredBy(r, key) ==
    /\ runs[r].pc = "returned"
    /\ runs[r].served_by = "provider"
    /\ KeyOf(runs[r]) = key

Answered(r) ==
    \/ runs[r].pc \in {"ledger", "history", "store"}
    \/ runs[r].pc = "returned" /\ runs[r].served_by = "provider"

\* the positions a chat_completion call can move to from a position
PipelineOrder(pc) ==
    CASE pc = "cache_get" -> {"hit", "precheck"}
      [] pc = "hit"       -> {"returned"}
      [] pc = "precheck"  -> {"ratelimit", "returned"}
      [] pc = "ratelimit" -> {"bucket"}
      [] pc = "bucket"    -> {"provider", "returned"}
      [] pc = "provider"  -> {"ledger", "returned"}
      [] pc = "ledger"    -> {"history"}
      [] pc = "history"   -> {"store", "returned"}
      [] pc = "store"     -> {"returned"}
      [] OTHER            -> {"cache_get", "precheck"}

\* C21 (as claimed): of two identical requests of one tenant only one is
\* answered by a provider; the other is served from the cache.
C21_OneProviderCallForTwo ==
    \A r1, r2 \in RunIds :
        (r1 # r2 /\ Answered(r1) /\ Answered(r2))
           => KeyOf(runs[r1]) # KeyOf(runs[r2])

\* C21 (amended): a request that a provider answers passes the provider
\* call, the ledger and the cache write once each, in this order, adding
\* exactly one request and one history entry to the tenant's ledger; a
\* request looked up after an identical request of the tenant has returned
\* from its cache write is a hit, and a hit returns without provider call
\* and without touching ledger or bucket.
C21_FirstPaysSecondHits ==
    [][ \A r \in RunIds :
          runs'[r] # runs[r] =>
            LET u   == runs[r].user_id
                key == KeyOf(runs[r])
            IN /\ runs'[r].pc \in PipelineOrder(runs[r].pc)
               /\ ( /\ runs[r].pc = "cache_get"
                    /\ \E r1 \in RunIds \ {r} : StoredBy(r1, key) )
                  => runs'[r].pc = "hit"
               /\ runs[r].pc = "hit" =>
                    /\ runs'[r].served_by = "cache"
                    /\ UNCHANGED <<user_billing, usage_history, buckets>>
               /\ runs[r].pc = "ledger" =>
                    /\ user_billing'[u].requests_today =
                          user_billing[u].requests_today + 1
                    /\ usage_history' = usage_history
               /\ runs[r].pc = "history" =>
                    /\ Len(usage_history'[u]) = Len(HistoryOf(u)) + 1
                    /\ user_billing' = user_billing
               /\ runs[r].pc = "store" =>
                    /\ key \in DOMAIN cache'.response
                    /\ from_str(cache'.response[key]).value.response
                         = runs'[r].result
                    /\ UNCHANGED <<user_billing, usage_history>>
               /\ runs[r].pc \notin {"ledger", "history"} =>
                    /\ usage_history' = usage_history
                    /\ \A v \in DOMAIN user_billing :
                          user_billing'[v].requests_today =
                             user_billing[v].requests_today
      ]_vars

\* C21 witness: the first request was answered by a provider, ledgered
\* once and stored; the identical second request has been served from the
\* cache as hit 1, and the ledger still holds one request.
C21_Witness ==
    /\ StoredBy(1, generate_response_cache_key("alice", Greeting))
    /\ runs[2].pc = "returned"
    /\ runs[2].served_by = "cache"
    /\ runs[2].request = Greeting
    /\ runs[2].result = runs[1].result
    /\ HitsOf(generate_response_cache_key("alice", Greeting)) = 1
    /\ user_billing["alice"].requests_today = 1
    /\ Len(HistoryOf("alice")) = 1

\* the record of a call that a router without cache has just received
CachelessStart(run) ==
    [IdleRun EXCEPT !.pc = "precheck", !.op = "chat_completion",
                    !.user_id = run.user_id, !.request = run.request,
                    !.estimated_tokens = run.estimated_tokens]

\* C22 (as claimed): a call whose hit-count bump fails returns what a router
\* without cache returns: it returns Ok only for a tenant that the billing
\* pre-check admits.
C22_SameAsWithoutCache ==
    [][ \A r \in RunIds :
          ( /\ runs[r].pc = "hit"
            /\ runs'[r].pc = "returned"
            /\ cache'.hits = cache.hits )
          => can_make_request(user_billing[runs[r].user_id])
      ]_vars

\* C22 (amended): no failure of the cache layer reaches the caller.  A
\* failed lookup leaves the call where a router without cache starts it; a
\* failed write returns the provider's response, as a router without cache
\* does; a failed hit-count bump returns the cached response the lookup
\* found, as a successful bump does; and none of them touches ledger,
\* bucket or cache.
C22_CacheFailuresSwallowed ==
    [][ \A r \in RunIds :
          runs'[r] # runs[r] =>
            /\ runs'[r].pc = "returned" =>
                  runs'[r].result \in
                     Responses \cup {"RateLimitExceeded", "ProviderError"}
            /\ (runs[r].pc = "cache_get" /\ runs'[r].pc # "hit") =>
                  /\ runs'[r] = CachelessStart(runs[r])
                  /\ UNCHANGED <<cache, user_billing, usage_history, buckets>>
            /\ runs[r].pc = "store" =>
                  /\ runs'[r] = Served(runs[r], "provider")
                  /\ runs'[r].result = runs[r].response
                  /\ UNCHANGED <<user_billing, usage_history, buckets>>
                  /\ cache'.hits = cache.hits
                  /\ cache'.response # cache.response =>
                        cache'.response =
                           Put(cache.response, KeyOf(runs[r]),
                               cache'.response[KeyOf(runs[r])])
            /\ runs[r].pc = "hit" =>
                  /\ runs'[r] = Served(runs[r], "cache")
                  /\ runs'[r].result = runs[r].response
                  /\ UNCHANGED <<user_billing, usage_history, buckets>>
                  /\ cache'.response = cache.response
      ]_vars

\* C22 witness: the write of the first call failed (it has returned the
\* provider's response and its key has no entry), and the other call was
\* served a cached response although its hit-count bump failed.
C22_Witness ==
    /\ runs[1].pc = "returned"
    /\ runs[1].served_by = "provider"
    /\ runs[1].result = "a1"
    /\ KeyOf(runs[1]) \notin DOMAIN cache.response
    /\ runs[2].pc = "returned"
    /\ runs[2].served_by = "cache"
    /\ HitsOf(KeyOf(runs[2])) = 0

\* C23: generate_response_cache_key is a function of tenant id, model,
\* temperature and messages (equal inputs give equal keys), the keys of two
\* different tenant ids are never equal, whatever the hash values are, and
\* so the entry a tenant's key leads to was cached for that tenant.
C23_KeysSeparateTenants ==
    /\ \A u1, u2 \in UserIds, q1, q2 \in Requests :
          /\ HashInput(u1, q1) = HashInput(u2, q2) =>
                response_cache_key(u1, q1) = response_cache_key(u2, q2)
          /\ u1 # u2 => response_cache_key(u1, q1) # response_cache_key(u2, q2)
    /\ \A u \in UserIds, q \in Requests :
          response_cache_key(u, q) \in DOMAIN cache.response =>
             from_str(cache.response[response_cache_key(u, q)])
                .value.response.tenant = u

\* C23 witness: two tenants, one of whose ids contains the other's followed
\* by the separator, have the same digest for the same request, and both
\* have an entry cached.
C23_Witness ==
    /\ hasher[HashInput(<<"a">>, Greeting)]
         = hasher[HashInput(<<"a", ":", "b">>, Greeting)]
    /\ response_cache_key(<<"a">>, Greeting) \in DOMAIN cache.response
    /\ response_cache_key(<<"a", ":", "b">>, Greeting) \in DOMAIN cache.response
    /\ response_cache_key(<<"a", "b">>, Farewell) \in DOMAIN cache.response

\* C24: for a request with a tenant id no provider operation is invoked
\* unless admission has admitted it: a call reaches the provider call of
\* chat_completion, or the provider streams of stream_chat_completion, only
\* by the step in which check_rate_limit admits it, which follows the
\* billing pre-check.
C24_AdmittedBeforeProvider ==
    [][ \A r \in RunIds :
          ( /\ runs'[r].pc \in {"provider", "streaming"}
            /\ runs[r].pc # runs'[r].pc )
          => /\ runs[r].pc = "bucket"
             /\ can_consume(CurrentBucket(buckets, runs[r].user_id,
                                          ConfigOf(runs[r].tier)),
                            ConfigOf(runs[r].tier),
                            runs[r].estimated_tokens)
      ]_vars

----------------------------------------------------------------------------
(* Candidate selection *)

\* the selection is as long as k allows
SelectionCount ==
    Len(decision.selected_providers)
        = Min(KOr2(decision.omen_k), Len(decision.candidates))

\* scores do not increase along the selection
SelectionOrdered ==
    \A i, j \in 1..Len(decision.selected) :
        i < j => decision.selected[i].score >= decision.selected[j].score

\* candidates of equal score are selected in their input order
SelectionStable ==
    \A i, j \in 1..Len(decision.selected) :
        (i < j /\ decision.selected[i].score = decision.selected[j].score)
            => decision.selected[i].index < decision.selected[j].index

\* every selected id is the id of a candidate
SelectionFromInput ==
    \A i \in 1..Len(decision.selected_providers) :
        decision.selected_providers[i] \in Range(decision.candidates)

\* no id is selected twice
SelectionDistinct ==
    \A i, j \in 1..Len(decision.selected_providers) :
        i # j => decision.selected_providers[i] # decision.selected_providers[j]

\* C25: select_optimal_providers returns min(k, number of candidates) ids
\* in order of non-increasing score, candidates of equal score in their
\* input order; every returned id is a candidate's and none is returned
\* twice.
C25_TopKStableDistinct ==
    (decision.routed /\ decision.multiplexed)
        => /\ SelectionCount
           /\ SelectionOrdered
           /\ SelectionStable
           /\ SelectionFromInput
           /\ SelectionDistinct

\* the candidates of the decision that cost least per 1k tokens
CheapestOf(d) ==
    { d.candidates[i] : i \in { n \in 1..Len(d.candidates) :
        \A m \in 1..Len(d.candidates) :
            MetricsOf(advanced_router, d.candidates[n]).cost_per_1k_tokens
              <= MetricsOf(advanced_router,
                           d.candidates[m]).cost_per_1k_tokens } }

\* C26: a tenant whose budget, set through set_user_budget, is below zero
\* is refused with BudgetExceeded before any provider is called, and a
\* tenant whose budget is below the estimated cost of the top candidate is
\* routed to the cheapest healthy candidate.
C26_BudgetGatesSelection ==
    [][ ( /\ decision' # decision
          /\ decision'.user_id \in DOMAIN advanced_router.cost_budgets )
        => LET remaining == advanced_router.cost_budgets[decision'.user_id]
               top == select_optimal_providers(
                          advanced_router, decision'.candidates,
                          decision'.intent, 1)
           IN  /\ remaining < 0 => decision'.result = "BudgetExceeded"
               /\ ( /\ remaining >= 0
                    /\ decision'.candidates # << >>
                    /\ remaining < top.estimated_cost )
                  => /\ Len(decision'.selected_providers) = 1
                     /\ decision'.selected_providers[1]
                           \in CheapestOf(decision')
      ]_vars

\* the strategy a directive's strategy and k stand for
DirectedStrategy(name, k) ==
    IF name = "single" THEN [kind |-> "single", k |-> 1, delay_ms |-> 0]
    ELSE IF name = "speculate_k"
    THEN [kind |-> name, k |-> KOr2(k), delay_ms |-> 150]
    ELSE IF name \in {"race", "parallel_merge"}
    THEN [kind |-> name, k |-> KOr2(k), delay_ms |-> 0]
    ELSE [kind |-> "race", k |-> 2, delay_ms |-> 0]

\* C27: a streaming request is multiplexed with the strategy of its
\* directive, k defaulting to 2 and the speculative delay being 150 ms, and
\* with Race(2) when the strategy is absent or unrecognised or the request
\* carries no directive at all.
C27_StrategyOrRace2 ==
    (decision.routed /\ decision.result = "Ok")
        => /\ decision.multiplexed
           /\ decision.strategy
                = DirectedStrategy(decision.omen_strategy, decision.omen_k)

----------------------------------------------------------------------------
(* Errors before commitment *)

\* the coordinator takes an Error event of a provider that is not the
\* committed one
TakesUncommittedError ==
    /\ RaceRecv \/ SpecRecv
    /\ Head(chan).type = "Error"
    /\ Head(chan).provider_id # winner
    /\ Head(chan).provider_id # current_provider

\* the event leaves the run as it was: nothing is sent, the loop goes on,
\* nobody is cancelled and the commitment is what it was
RunGoesOn ==
    /\ output' = output
    /\ coordPc' = "running"
    /\ cancelled' = cancelled
    /\ winner' = winner
    /\ current_provider' = current_provider
    /\ can_upgrade' = can_upgrade

\* C28 as stated: an Error event of a provider that is not the Winner is
\* absorbed: no error item is put on the output, the run does not end, and
\* an election afterwards is as possible as it was before.
C28_ErrorAbsorbed ==
    [][ TakesUncommittedError => RunGoesOn ]_vars

\* C28 amended: the same for every run whose budget is not exceeded when
\* the event is taken; the budget check that follows every event of a Race
\* ends a run whose accumulated cost is above the budget, whatever the
\* event was.
C28_ErrorAbsorbedWithinBudget ==
    [][ ( /\ TakesUncommittedError
          /\ Mode(strategy, providers) = "race"
                => ~BudgetExceeded(total_cost, budget_cap) )
        => RunGoesOn ]_vars

\* a driver has failed, its Error event has been taken from the channel,
\* and the coordinator is running, within budget, with nobody committed
\* and nobody cancelled
C28_Witness ==
    /\ coordPc = "running"
    /\ \E p \in ProviderIds :
          /\ drvPc[p] = "error"
          /\ \A i \in 1..Len(chan) : chan[i].provider_id # p
    /\ winner = NoProvider
    /\ current_provider = NoProvider
    /\ ~cancelled
    /\ Mode(strategy, providers) = "race"
          => ~BudgetExceeded(total_cost, budget_cap)

----------------------------------------------------------------------------
(* Upgrades of a speculative run *)

\* this step of the speculative coordinator switches the current provider
\* from one provider to another
UpgradeStep ==
    /\ SpecRecv
    /\ current_provider # NoProvider
    /\ current_provider' # current_provider

\* cancellation has been requested for every driver that still reads the
\* stream of a provider other than the current one; the drivers hold child
\* tokens of one cancellation token and of nothing else
OthersCancelled ==
    \A p \in ProviderIds \ {current_provider} :
        drvPc[p] = "streaming" => cancelled

\* what this step sends on the output is a chunk of the current provider
ForwardsCurrentOnly ==
    output' # output
        => /\ output' = Append(output, OkItem(Head(chan)))
           /\ Head(chan).provider_id = current_provider'

\* C29: when an upgrade switches the Current provider of a SpeculateK run,
\* the driver of the prior Current provider is cancelled, and from that
\* chunk on only chunks of the new Current provider are forwarded.
C29_UpgradeCancelsPrior ==
    [][ /\ UpgradeStep => OthersCancelled'
        /\ (UpgradeStep \/ ~can_upgrade)
              => (ForwardsCurrentOnly \/ coordPc' = "finished")
      ]_vars

\* C30: the first Current provider of a SpeculateK run is the local
\* provider, and the Current provider only ever switches from the local
\* provider to a cloud provider.
C30_LocalFirstCloudUpgrades ==
    [][ current_provider' # current_provider
          => IF current_provider = NoProvider
             THEN current_provider' = LocalId
             ELSE current_provider = LocalId /\ current_provider' # LocalId
      ]_vars

----------------------------------------------------------------------------
(* Caller disconnect *)

\* the coordinator takes a chunk that it sends on the output
TakesForwardedChunk ==
    /\ RaceRecv \/ SpecRecv
    /\ Head(chan).type = "Token"
    /\ Head(chan).provider_id \in {winner', current_provider'}

\* C31: when the caller has dropped the output sequence, the coordinator
\* cancels all drivers and stops, at the latest when it has a chunk to send
\* to the consumer that is gone, so that no driver keeps reading its
\* provider stream for it.
C31_DisconnectCancels ==
    [][ (~outputOpen /\ TakesForwardedChunk)
          => (cancelled' /\ coordPc' = "finished") ]_vars

----------------------------------------------------------------------------
(* Drivers *)

\* how many events of a provider the channel holds
EventsOf(ch, p) ==
    Cardinality({ i \in 1..Len(ch) : ch[i].provider_id = p })

\* C32: a driver that has taken the cancelled branch of its select has
\* terminated: it stays where it is, reads nothing more from its provider
\* and sends no further event (Token, Done or Error) to the coordinator.
C32_CancelledDriverSilent ==
    [][ \A p \in ProviderIds :
          drvPc[p] = "cancelled"
            => /\ drvPc'[p] = "cancelled"
               /\ produced'[p] = produced[p]
               /\ EventsOf(chan', p) <= EventsOf(chan, p)
      ]_vars

\* a driver has observed the cancellation while the coordinator is still
\* receiving and the channel has room for events
C32_Witness ==
    /\ coordPc = "running"
    /\ TxReady
    /\ \E p \in ProviderIds :
          drvPc[p] = "cancelled" /\ Len(produced[p]) < MaxChunks

----------------------------------------------------------------------------
(* Recording at the end of a stream *)

\* the output sequence of the streaming request of task r terminates
StreamTerminates(r) ==
    /\ runs[r].pc = "streaming"
    /\ runs'[r].pc = "returned"

\* C33: when the output sequence of a streaming request terminates, the
\* pipeline records the tenant's ledger entry and the router metrics of a
\* serving provider, each exactly once.
C33_StreamEndRecords ==
    [][ \A r \in RunIds :
          StreamTerminates(r)
            => /\ Len(HistoryOf(runs[r].user_id)')
                    = Len(HistoryOf(runs[r].user_id)) + 1
               /\ \E p \in RegistryIds :
                     MetricsOf(advanced_router', p).samples
                         = MetricsOf(advanced_router, p).samples + 1
      ]_vars

----------------------------------------------------------------------------
(* Router metrics of the non-streaming pipeline *)

\* this step folds one response of provider p into its metrics
RecordsSample(p) ==
    MetricsOf(advanced_router', p).samples
        = MetricsOf(advanced_router, p).samples + 1

\* C34: every completed provider call of the non-streaming pipeline leaves
\* exactly one metrics record of the provider: a failed call one with
\* success = false, which lowers the provider's success_rate, a successful
\* call (recorded after its ledger entry) one with success = true.
C34_EveryCallRecorded ==
    [][ \A r \in RunIds :
          /\ (runs[r].pc = "provider" /\ runs'[r].pc = "returned")
                => \E p \in RegistryIds :
                      /\ RecordsSample(p)
                      /\ MetricsOf(advanced_router', p).success_rate
                            < MetricsOf(advanced_router, p).success_rate
          /\ ( /\ runs[r].pc = "history"
               /\ runs[r].op = "chat_completion"
               /\ runs'[r].pc # "history" )
                => \E p \in RegistryIds :
                      /\ RecordsSample(p)
                      /\ MetricsOf(advanced_router', p).success_rate
                            = (MetricsOf(advanced_router, p).success_rate * 9)
                                  \div 10 + 100
      ]_vars

----------------------------------------------------------------------------
(* Service priorities of the Ghost services *)

\* the tier's per-window limits multiplied by the table entry of a priority
EnhancedConfig(config, priority) ==
    [config EXCEPT
       !.requests_per_minute = (@ * enhanced_multiplier(priority)) \div 10,
       !.tokens_per_minute = (@ * enhanced_multiplier(priority)) \div 10]

\* C35: check_ghost_service_limit admits a caller exactly when the bucket
\* of the tenant has room under the tier's per-window limits multiplied by
\* 5, 3, 2.5 or 2 for a service of priority 255, 200, 180 or 160, and under
\* the unmodified limits for every other service.
C35_PriorityMultipliesLimits ==
    [][ \A r \in RunIds :
          ( /\ runs[r].pc = "bucket"
            /\ runs[r].op = "check_ghost_service_limit"
            /\ runs'[r].pc = "returned" )
          => LET config == ConfigOf(runs[r].tier)
                 bucket == CurrentBucket(buckets, runs[r].user_id, config)
             IN  (runs'[r].result = "Ok")
                    <=> can_consume(bucket,
                                    EnhancedConfig(config,
                                       PriorityOf(runs[r].service)),
                                    runs[r].estimated_tokens)
      ]_vars

----------------------------------------------------------------------------
(* The event protocol of a driver *)

\* this step appends an event of driver p to the channel
Emits(p) ==
    /\ Len(chan') = Len(chan) + 1
    /\ chan'[Len(chan')].provider_id = p

\* the event this step appends
EmittedEvent == chan'[Len(chan')]

\* C36: the events of a driver are Tokens followed by at most one terminal
\* event: a Token is emitted only by a driver that reads its stream and goes
\* on reading, a Done or an Error ends the driver, a driver that has ended
\* emits nothing more and stays ended, and a driver whose provider fails to
\* open the stream emits one Error, no Token, and ends.
C36_DriverProtocol ==
    [][ \A p \in ProviderIds :
          /\ Emits(p) =>
               /\ drvPc[p] \in {"opening", "streaming"}
               /\ EmittedEvent.type = "Token"
                    => drvPc[p] = "streaming" /\ drvPc'[p] = "streaming"
               /\ EmittedEvent.type = "Done"
                    => drvPc[p] = "streaming" /\ drvPc'[p] = "done"
               /\ EmittedEvent.type = "Error" => drvPc'[p] = "error"
               /\ drvPc[p] = "opening"
                    => EmittedEvent.type = "Error" /\ produced'[p] = << >>
          /\ drvPc[p] \in {"done", "error"}
               => /\ drvPc'[p] = drvPc[p]
                  /\ produced'[p] = produced[p]
                  /\ EventsOf(chan', p) <= EventsOf(chan, p)
          /\ (drvPc[p] = "opening" /\ drvPc'[p] = "error"
                /\ coordPc = "running")
               => Emits(p)
      ]_vars

\* one driver has ended with Done after its Tokens, another with the Error
\* of a failed open, while the coordinator still receives and the channel
\* has room
C36_Witness ==
    /\ coordPc = "running"
    /\ TxReady
    /\ \E p, q \in ProviderIds :
          /\ drvPc[p] = "done" /\ Len(produced[p]) > 0
          /\ Len(produced[p]) < MaxChunks
          /\ drvPc[q] = "error" /\ produced[q] = << >>

----------------------------------------------------------------------------
(* The delayed cloud providers of a SpeculateK run *)

\* the run has ended on the Current provider's Done or Error before the
\* delay has elapsed
EndedBeforeDelay ==
    /\ Mode(strategy, providers) = "speculate"
    /\ coordPc = "finished"
    /\ coordExit \in {"done", "error"}
    /\ ~cloudSpawned

\* C37: when a SpeculateK run has ended on the Current provider's Done or
\* Error before delay_ms has elapsed, no driver of a cloud provider is
\* started afterwards, so stream_chat_completion of no cloud provider is
\* invoked for the request.
C37_NoCloudAfterEnd ==
    [][ EndedBeforeDelay
          => \A p \in cloud_providers(providers, K) :
                drvPc'[p] = "unspawned"
      ]_vars

----------------------------------------------------------------------------
(* What a check_rate_limit call consumes *)

\* the bucket a tenant has, a missing one counting as empty
BucketOf(map, user_id) ==
    IF user_id \in DOMAIN map THEN map[user_id] ELSE NewBucket

\* C38: a check_rate_limit call changes no bucket of another tenant; a
\* denied call within an unexpired window leaves the requests and tokens
\* of its tenant as they were; an admitted call, and only an admitted one,
\* adds 1 to the requests and estimated_tokens to the tokens of the window.
C38_DeniedConsumesNothing ==
    [][ \A r \in RunIds :
          ( /\ runs[r].pc = "bucket"
            /\ runs[r].op = "check_rate_limit"
            /\ runs'[r].pc = "returned" )
          => LET u      == runs[r].user_id
                 config == ConfigOf(runs[r].tier)
                 before == BucketOf(buckets, u)
                 window == CurrentBucket(buckets, u, config)
                 after  == BucketOf(buckets', u)
             IN  /\ \A v \in DOMAIN buckets \ {u} :
                       v \in DOMAIN buckets' /\ buckets'[v] = buckets[v]
                 /\ DOMAIN buckets' \subseteq DOMAIN buckets \cup {u}
                 /\ runs'[r].result \in {"Ok", "RateLimitExceeded"}
                 /\ ( /\ runs'[r].result = "RateLimitExceeded"
                      /\ ~should_reset(before, config.window_size) )
                    => /\ after.requests = before.requests
                       /\ after.tokens = before.tokens
                 /\ runs'[r].result = "RateLimitExceeded"
                    => /\ after.requests = window.requests
                       /\ after.tokens = window.tokens
                 /\ runs'[r].result = "Ok"
                    => /\ after.requests = window.requests + 1
                       /\ after.tokens
                            = window.tokens + runs[r].estimated_tokens
      ]_vars

\* alice was denied within her window, in which one call had consumed
\* tokens, while bob has a bucket of his own with a call counted
C38_Witness ==
    /\ \E r \in RunIds :
          runs[r].pc = "returned" /\ runs[r].result = "RateLimitExceeded"
    /\ DOMAIN buckets = Tenants
    /\ buckets["alice"].requests = 1
    /\ buckets["alice"].tokens = LargeEstimate
    /\ ~should_reset(buckets["alice"], ConfigOf("free").window_size)
    /\ buckets["bob"].requests = 1
    /\ buckets["bob"].tokens = 0

----------------------------------------------------------------------------
(* Bucket eviction *)

\* the window of a tenant's tier
WindowOf(user_id) ==
    ConfigOf(IF user_id \in DOMAIN user_billing
             THEN user_billing[user_id].tier ELSE "free").window_size

\* a bucket whose window has expired
ExpiredBucket == [NewBucket EXCEPT !.elapsed = ElapsedCap]

\* what admission can see of the buckets: per tenant the bucket of the
\* running window, a missing bucket and an expired one being the same
Visible(map) ==
    [u \in Tenants |->
       IF u \in DOMAIN map /\ ~should_reset(map[u], WindowOf(u))
       THEN map[u] ELSE ExpiredBucket]

\* the window check_rate_limit works on, from what admission can see
VisibleWindow(bucket) ==
    IF bucket = ExpiredBucket THEN NewBucket ELSE bucket

\* this step drops buckets from the map, as only a cleanup run does
DropsBuckets ==
    /\ DOMAIN buckets' # DOMAIN buckets
    /\ DOMAIN buckets' \subseteq DOMAIN buckets

\* C39: cleanup_expired_buckets is invisible to admission.  A cleanup run
\* changes nothing of what admission can see of the buckets, and the
\* outcome of every check_rate_limit call, what it leaves visible, and what
\* the passing of time leaves visible are determined by what was visible
\* before: with or without cleanup runs in between, the same calls get the
\* same outcomes.
C39_CleanupInvisible ==
    [][ /\ DropsBuckets => Visible(buckets') = Visible(buckets)
        /\ \A r \in RunIds :
             ( /\ runs[r].pc = "bucket"
               /\ runs[r].op = "check_rate_limit"
               /\ runs'[r].pc = "returned" )
             => LET u      == runs[r].user_id
                    est    == runs[r].estimated_tokens
                    config == ConfigOf(runs[r].tier)
                    window == VisibleWindow(Visible(buckets)[u])
                    ok     == can_consume(window, config, est)
                IN  /\ runs'[r].result
                         = IF ok THEN "Ok" ELSE "RateLimitExceeded"
                    /\ Visible(buckets')
                         = [Visible(buckets) EXCEPT
                              ![u] = IF ok THEN consume(window, est)
                                     ELSE window]
        /\ Tick
             => Visible(buckets')
                  = [u \in Tenants |->
                       LET bucket == Visible(buckets)[u]
                       IN IF bucket.elapsed + TickSeconds >= WindowOf(u)
                          THEN ExpiredBucket
                          ELSE [bucket EXCEPT !.elapsed = @ + TickSeconds]]
      ]_vars

\* a cleanup has dropped every bucket, that of an admitted call included,
\* and the next call of alice is about to be tested
C39_Witness ==
    /\ buckets = << >>
    /\ \E r \in RunIds :
          /\ runs[r].pc = "returned"
          /\ runs[r].result = "Ok"
    /\ \E r \in RunIds :
          /\ runs[r].pc = "bucket"
          /\ runs[r].user_id = "alice"
          /\ runs[r].estimated_tokens = LargeEstimate

----------------------------------------------------------------------------
(* The frame of a metrics update *)

\* what an update of provider p with tokens_used tokens may change
UpdateFrame(p, tokens_used) ==
    LET old == MetricsOf(advanced_router, p)
        new == MetricsOf(advanced_router', p)
    IN  /\ DOMAIN advanced_router'.metrics
             = DOMAIN advanced_router.metrics \cup {p}
        /\ \A q \in DOMAIN advanced_router.metrics \ {p} :
              advanced_router'.metrics[q] = advanced_router.metrics[q]
        /\ new.quality_score = old.quality_score
        /\ new.current_load = old.current_load
        /\ new.availability = old.availability
        /\ tokens_used = 0
             => new.cost_per_1k_tokens = old.cost_per_1k_tokens

\* C40: update_metrics_from_response changes only avg_latency_ms,
\* success_rate and cost_per_1k_tokens of the named provider: its
\* quality_score, current_load and availability and every entry of another
\* provider stay as they were, cost_per_1k_tokens stays when tokens_used is
\* 0, and no entry is removed.
C40_UpdateFrame ==
    [][ \A p \in MetricProviders, in \in MetricInputs :
          UpdateProviderMetrics(p, in.latency_ms, in.success, in.cost_usd,
                                in.tokens_used)
            => UpdateFrame(p, in.tokens_used)
      ]_vars

\* the first response of openai, a failed one without tokens, has been
\* folded in while ollama has an entry of its own
C40_Witness ==
    /\ "ollama" \in DOMAIN advanced_router.metrics
    /\ "openai" \in DOMAIN advanced_router.metrics
    /\ advanced_router.metrics["openai"].samples = 1
    /\ advanced_router.metrics["openai"].success_rate
         < MetricsOf(NewAdvancedRouter, "openai").success_rate
    /\ advanced_router.metrics["openai"].avg_latency_ms
         # MetricsOf(NewAdvancedRouter, "openai").avg_latency_ms
    /\ advanced_router.metrics["openai"].cost_per_1k_tokens
         = MetricsOf(NewAdvancedRouter, "openai").cost_per_1k_tokens

====
